---- MODULE Spec2Model ----
(***************************************************************************)
(* A model of the resumable batch generation and transfer pipeline of      *)
(* nftgen-script: the batch planner (generateMetadata.ts,                  *)
(* generateImages.ts), the composition worker pool and its progress        *)
(* checkpoint (generateImages.ts), the start-up resume decision            *)
(* (index.ts, generateImages.ts) and the transfer engine                   *)
(* (uploadToDrive.ts).                                                     *)
(*                                                                         *)
(* The module holds three state machines over disjoint groups of           *)
(* variables:                                                              *)
(*   SpecPlan    the batch planner: metadata writer, metadata lookup and   *)
(*               image output path, for one configuration                  *)
(*   SpecGen     one or more invocations of the generation stage: the      *)
(*               resume decision, generateImages, the workers and the      *)
(*               handlers of their events                                  *)
(*   SpecUpload  one or more invocations of the transfer stage             *)
(***************************************************************************)
EXTENDS Integers, Sequences, FiniteSets, TLC

VARIABLES
  \* ---- batch planner
  cfgBatchSize,   \* config.batchSize as written in config.ts (a JS value)
  numNfts,        \* number of items the metadata writer produces
  ppc,            \* position of the planner run
  pEdition,       \* loop variable of the phase in progress
  metaFiles,      \* <<edition, key>>: edition is in <key>/metadata/metadata.json
  lookupKeys,     \* <<edition, key>>: key getAllBatchMetadata computed for edition
  allNfts,        \* editions getAllBatchMetadata loaded
  imgPaths,       \* <<edition, key>>: image of edition written under <key>/img
  cfgIndividual,  \* config.generateIndividualFiles
  individualFiles \* <<edition, dir>>: <edition>.json written under <dir>/metadata,
                  \* or under the output root when dir is empty

planVars == <<cfgBatchSize, numNfts, ppc, pEdition, metaFiles, lookupKeys,
              allNfts, imgPaths, cfgIndividual, individualFiles>>

VARIABLES
  \* ---- generation stage: configuration and host
  gForce,         \* config.imageGeneration.forceRegenerate
  gCfgStart,      \* config.imageGeneration.startIndex (a JS value)
  gCfgThreads,    \* config.imageGeneration.numThreads (a JS value)
  gCpus,          \* cpus().length
  gEnd,           \* the largest edition that has metadata
  \* ---- generation stage: the disk
  snapshot,       \* generation_progress.json
  images,         \* editions that have an image file
  \* ---- generation stage: the process
  run,            \* number of the invocation
  gpc,            \* position of main()
  gLoaded,        \* what the start-up decision saw in generation_progress.json
  gStart,         \* startIndex handed to generateImages
  numThreads,     \* numThreads inside generateImages
  progressData,   \* progressData of generateImages
  completedThreads,
  totalGenerated,
  gResolved,      \* the promise of generateImages is resolved
  workers,        \* the spawned workers: range, next index, done posted
  chan,           \* per worker, its events not yet handled by the main thread
  rendered        \* <<edition, worker>>: images written in this invocation

genCfgVars == <<gForce, gCfgStart, gCfgThreads, gCpus, gEnd>>
genDiskVars == <<snapshot, images>>
genProcVars == <<run, gpc, gLoaded, gStart, numThreads, progressData,
                 completedThreads, totalGenerated, gResolved, workers, chan,
                 rendered>>
genVars == <<genCfgVars, genDiskVars, genProcVars>>

VARIABLES
  \* ---- transfer stage: configuration
  uDelete,        \* config.googleDrive.deleteLocalAfterUpload
  uConc,          \* concurrentUploads
  \* ---- transfer stage: the disk
  uDirs,          \* batch directory name -> editions with an image in its img/
  ckpt,           \* drive_upload_progress.json
  \* ---- transfer stage: the remote end
  uRemote,        \* <<file, invocation>>: the uploads that have succeeded
  \* ---- transfer stage: the process
  uRun,           \* number of the invocation
  upc,            \* position of uploadAllBatchesToDrive / uploadBatchToDrive
  uQueue,         \* batchDirs not yet visited by the loop
  uAllProgress,   \* progress of uploadAllBatchesToDrive
  progress,       \* progress of uploadBatchToDrive
  uBatch,         \* batchKey of uploadBatchToDrive
  uFiles,         \* files
  uToUpload,      \* filesToUpload
  uI,             \* i of the window loop
  tasks,          \* the upload tasks of the window in flight
  uResults,       \* uploadResults: numbers of successes and failures
  uToken,         \* currentToken is set
  \* ---- transfer stage: what the invocation has done so far
  uLoaded,        \* the checkpoint uploadBatchToDrive loaded for uBatch
  uRequests,      \* <<kind, batch>>: remote requests issued
  uListed,        \* batches whose img/ was listed, and whether every image
                  \* in it had an uploadedFiles entry then
  uOpened,        \* files an upload session was opened for
  uCheck          \* the completion check the last step made, if any

upCfgVars == <<uDelete, uConc>>
upProcVars == <<upc, uQueue, uAllProgress, progress, uBatch, uFiles, uToUpload, uI,
                tasks, uResults, uToken, uLoaded, uRequests, uListed, uOpened,
                uCheck>>
upVars == <<upCfgVars, uDirs, ckpt, uRemote, uRun, upProcVars>>

VARIABLES
  \* ---- the upload of one file: uploadFileToDrive and the task around it
  fSize,          \* fileSize
  fChunk,         \* config.chunkSize
  fMaxRetries,    \* config.maxRetries
  fpc,            \* position: open, read, put, wait, resolved, rejected
  uploadedBytes,  \* uploadedBytes of uploadFileInChunks
  retries,        \* retries of uploadFileInChunks
  fRecord,        \* what the task wrote in progress for the file
  \* ---- what has happened to the file so far
  fPuts,          \* Content-Range of every PUT sent, in order
  fDelays,        \* every retry scheduled: cause, byte offset, delay
  fConsec,        \* failed attempts of the current chunk in a row
  fFails,         \* failures so far
  fBudget,        \* failures the remote end and the disk will produce at most
  fLast,          \* the failure that rejected the upload
  fAnswer         \* the last answer to a PUT, and the offset it confirmed

fileVars == <<fSize, fChunk, fMaxRetries, fpc, uploadedBytes, retries, fRecord,
              fPuts, fDelays, fConsec, fFails, fBudget, fLast, fAnswer>>

VARIABLES
  \* ---- one turn of the loop of workerFunction, for an item with metadata
  rLayers,        \* per layer of layerOrder: what the item has for it
  rpc,            \* position: turn, done
  rThrew,         \* sharp or the file system threw inside the try block
  rComposite,     \* the layers given to sharp, bottom first
  rImage,         \* the output file is written
  rEvent          \* the event posted for the item

renderVars == <<rLayers, rpc, rThrew, rComposite, rImage, rEvent>>

vars == <<planVars, genVars, upVars, fileVars, renderVars>>

(***************************************************************************)
(* Bounds of the model.                                                    *)
(***************************************************************************)
MaxItems == 25
MaxBatchSize == 10
MaxGenItems == 3
MaxResumeItems == 2
MaxThreads == 3
MaxCpus == 3
MaxRuns == 2
MaxLongItems == 10
MaxUploadItems == 3
MaxUploadBatch == 3
MaxConcurrent == 2
MaxUploadRuns == 2
MaxOrderItems == 11
MaxOrderBatch == 5
MaxLayers == 4
MaxMainItems == 2
MaxFileSize == 12
MaxChunkSize == 5
MaxRetries == 2
MaxFailures == 3
MaxRetryFileSize == 3
MaxSettleFileSize == 2

(***************************************************************************)
(* JavaScript numbers, as far as the batch arithmetic needs them: the      *)
(* finite integers, NaN, +Infinity, and undefined for an absent            *)
(* configuration value.                                                    *)
(***************************************************************************)
Num(n) == [t |-> "num", v |-> n]
NaN == [t |-> "nan", v |-> 0]
Infinity == [t |-> "inf", v |-> 0]
Undefined == [t |-> "undef", v |-> 0]

IsNum(x) == x.t = "num"

\* !x of JavaScript for a number or undefined
Falsy(x) == x.t \in {"undef", "nan"} \/ (x.t = "num" /\ x.v = 0)

\* x || d
OrDefault(x, d) == IF Falsy(x) THEN d ELSE x

\* a destructuring or parameter default: it applies to undefined only
ParamDefault(x, d) == IF x.t = "undef" THEN d ELSE x

\* Math.floor(a / b) for a finite a >= 0
JsFloorDiv(a, b) ==
  IF ~IsNum(a) \/ ~IsNum(b) THEN NaN
  ELSE IF b.v = 0 THEN (IF a.v = 0 THEN NaN ELSE Infinity)
  ELSE Num(a.v \div b.v)

JsMul(a, b) ==
  IF a.t = "nan" \/ b.t = "nan" \/ a.t = "undef" \/ b.t = "undef" THEN NaN
  ELSE IF a.t = "inf" THEN (IF b.t = "num" /\ b.v = 0 THEN NaN ELSE Infinity)
  ELSE IF b.t = "inf" THEN (IF a.v = 0 THEN NaN ELSE Infinity)
  ELSE Num(a.v * b.v)

JsAdd(a, b) ==
  IF a.t = "nan" \/ b.t = "nan" \/ a.t = "undef" \/ b.t = "undef" THEN NaN
  ELSE IF a.t = "inf" \/ b.t = "inf" THEN Infinity
  ELSE Num(a.v + b.v)

(***************************************************************************)
(* Strings are sequences of one-character strings.                         *)
(***************************************************************************)
DigitChars == <<"0", "1", "2", "3", "4", "5", "6", "7", "8", "9">>

IsDigit(c) == \E d \in 1..10 : DigitChars[d] = c

RECURSIVE Digits(_)
Digits(n) ==
  IF n < 10 THEN <<DigitChars[n + 1]>>
  ELSE Digits(n \div 10) \o <<DigitChars[(n % 10) + 1]>>

\* `${x}` of a number
NumToString(x) ==
  CASE x.t = "num" -> (IF x.v < 0 THEN <<"-">> \o Digits(-x.v) ELSE Digits(x.v))
    [] x.t = "nan" -> <<"N", "a", "N">>
    [] x.t = "inf" -> <<"I", "n", "f", "i", "n", "i", "t", "y">>
    [] OTHER -> <<"u", "n", "d", "e", "f", "i", "n", "e", "d">>

(***************************************************************************)
(* The batch computation.  It is written out three times in                *)
(* generateImages.ts and once in generateMetadata.ts, each time as         *)
(*   batchStart = Math.floor((edition - 1) / batchSize) * batchSize + 1    *)
(*   batchEnd   = batchStart + batchSize - 1                               *)
(*   key        = `${batchStart}-${batchEnd}`                              *)
(***************************************************************************)
BatchStartOffByOne(edition, batchSize) ==
  JsAdd(JsMul(JsFloorDiv(Num(edition), batchSize), batchSize), Num(1))

BatchStart(edition, batchSize) ==
  JsAdd(JsMul(JsFloorDiv(Num(edition - 1), batchSize), batchSize), Num(1))

BatchEnd(edition, batchSize) ==
  JsAdd(JsAdd(BatchStart(edition, batchSize), batchSize), Num(-1))

BatchKey(edition, batchSize) ==
  NumToString(BatchStart(edition, batchSize)) \o <<"-">>
    \o NumToString(BatchEnd(edition, batchSize))

\* /^\d+-\d+$/
IsBatchDirName(s) ==
  \E k \in 2..(Len(s) - 1) :
    /\ s[k] = "-"
    /\ \A j \in (1..Len(s)) \ {k} : IsDigit(s[j])

(***************************************************************************)
(* Program constants.                                                      *)
(***************************************************************************)
DefaultBatchSize == 10000

\* the batch size main() hands to the image stage: config.batchSize || 10000
ImageBatchSize(cfg) == OrDefault(cfg, Num(DefaultBatchSize))

\* the batch size generateMetadata works with: main() passes config.batchSize
\* as it is, and the destructuring default covers undefined only
MetadataBatchSize(cfg) == ParamDefault(cfg, Num(DefaultBatchSize))

\* getMetadataOutputPath: the directory of <edition>.json, empty for the
\* output root
MetadataOutputDir(edition, batchSize) ==
  IF Falsy(batchSize) THEN <<>> ELSE BatchKey(edition, batchSize)

(***************************************************************************)
(* The values the variables of a state machine have while another one      *)
(* runs.                                                                   *)
(***************************************************************************)
NoProgress ==
  [startIndex |-> 0, currentIndex |-> 0, endIndex |-> 0, totalToGenerate |-> 0,
   generated |-> 0, errors |-> <<>>, completed |-> FALSE]

NoSnapshot == [kind |-> "none", data |-> NoProgress]

ProcIdle ==
  /\ gLoaded = NoSnapshot
  /\ gStart = 0
  /\ numThreads = 0
  /\ progressData = NoProgress
  /\ completedThreads = 0
  /\ totalGenerated = 0
  /\ gResolved = FALSE
  /\ workers = <<>>
  /\ chan = <<>>
  /\ rendered = {}

GenIdle ==
  /\ gForce = FALSE
  /\ gCfgStart = Undefined
  /\ gCfgThreads = Undefined
  /\ gCpus = 0
  /\ gEnd = 0
  /\ snapshot = NoSnapshot
  /\ images = {}
  /\ run = 0
  /\ gpc = "off"
  /\ ProcIdle

EmptyMap == [x \in {} |-> 0]

\* the progress object getUploadProgress returns when there is no file
EmptyProgress == [last |-> <<>>, uploaded |-> EmptyMap, failed |-> EmptyMap]

UploadProcIdle ==
  /\ uQueue = <<>>
  /\ uAllProgress = EmptyProgress
  /\ progress = EmptyProgress
  /\ uBatch = <<>>
  /\ uFiles = <<>>
  /\ uToUpload = <<>>
  /\ uI = 0
  /\ tasks = EmptyMap
  /\ uResults = [ok |-> 0, failed |-> 0]
  /\ uToken = FALSE
  /\ uLoaded = EmptyProgress
  /\ uRequests = {}
  /\ uListed = {}
  /\ uOpened = {}
  /\ uCheck = "none"

UploadIdle ==
  /\ uDelete = FALSE
  /\ uConc = 0
  /\ uDirs = EmptyMap
  /\ ckpt = EmptyProgress
  /\ uRemote = {}
  /\ uRun = 0
  /\ upc = "off"
  /\ UploadProcIdle

NoFailure == [call |-> "none", kind |-> "none", attempts |-> 0]

NoAnswer == [kind |-> "none", put |-> 0, confirmed |-> 0]

FileIdle ==
  /\ fSize = 0
  /\ fChunk = 0
  /\ fMaxRetries = 0
  /\ fpc = "off"
  /\ uploadedBytes = 0
  /\ retries = 0
  /\ fRecord = "none"
  /\ fPuts = <<>>
  /\ fDelays = <<>>
  /\ fConsec = 0
  /\ fFails = 0
  /\ fBudget = 0
  /\ fLast = NoFailure
  /\ fAnswer = NoAnswer

RenderIdle ==
  /\ rLayers = <<>>
  /\ rpc = "off"
  /\ rThrew = FALSE
  /\ rComposite = <<>>
  /\ rImage = FALSE
  /\ rEvent = "none"

PlanIdle ==
  /\ cfgBatchSize = Undefined
  /\ numNfts = 0
  /\ cfgIndividual = FALSE
  /\ ppc = "off"
  /\ pEdition = 0
  /\ metaFiles = {}
  /\ lookupKeys = {}
  /\ allNfts = {}
  /\ imgPaths = {}
  /\ individualFiles = {}

(***************************************************************************)
(* SpecPlan: the planner.  generateMetadata assigns the editions           *)
(* 1..numNfts to batch metadata files; generateImages scans the batch      *)
(* directories, getAllBatchMetadata looks the metadata of each edition up  *)
(* and the worker writes each image to its output path.                    *)
(***************************************************************************)
BatchSizeChoices == {Undefined} \cup {Num(b) : b \in 0..MaxBatchSize}

InitPlan ==
  /\ cfgBatchSize \in BatchSizeChoices
  /\ numNfts \in 1..MaxItems
  /\ cfgIndividual \in BOOLEAN
  /\ ppc = "meta"
  /\ pEdition = 1
  /\ metaFiles = {}
  /\ lookupKeys = {}
  /\ allNfts = {}
  /\ imgPaths = {}
  /\ individualFiles = {}
  /\ GenIdle
  /\ UploadIdle
  /\ FileIdle
  /\ RenderIdle

\* generateMetadata, one turn of its loop over the selected combinations
MetaItem ==
  /\ ppc = "meta"
  /\ pEdition <= numNfts
  /\ LET batchSize == MetadataBatchSize(cfgBatchSize)
         batchKey == BatchKey(pEdition, batchSize)
     IN /\ metaFiles' = metaFiles \cup {<<pEdition, batchKey>>}
        /\ individualFiles' =
             IF cfgIndividual
             THEN individualFiles
                    \cup {<<pEdition, MetadataOutputDir(pEdition, batchSize)>>}
             ELSE individualFiles
  /\ pEdition' = pEdition + 1
  /\ UNCHANGED <<cfgBatchSize, numNfts, cfgIndividual, ppc, lookupKeys, allNfts,
                 imgPaths>>

\* the batch directories generateImages finds metadata in
ScannedBatchDirs == {p[2] : p \in {q \in metaFiles : IsBatchDirName(q[2])}}

\* generateMetadata returns; generateImages counts the metadata it finds
ScanBatchDirs ==
  /\ ppc = "meta"
  /\ pEdition > numNfts
  /\ ppc' = IF ScannedBatchDirs = {} THEN "nometa" ELSE "lookup"
  /\ pEdition' = 1
  /\ UNCHANGED <<cfgBatchSize, numNfts, cfgIndividual, metaFiles, lookupKeys,
                 allNfts, imgPaths, individualFiles>>

\* the largest edition found in the scanned metadata files
ActualEndIndex ==
  LET found == {p[1] : p \in {q \in metaFiles : IsBatchDirName(q[2])}}
  IN CHOOSE m \in found : \A e \in found : e <= m

\* getAllBatchMetadata, one turn of its loop
LookupItem ==
  /\ ppc = "lookup"
  /\ pEdition <= ActualEndIndex
  /\ LET batchKey == BatchKey(pEdition, ImageBatchSize(cfgBatchSize))
     IN /\ lookupKeys' = lookupKeys \cup {<<pEdition, batchKey>>}
        /\ allNfts' = allNfts \cup {p[1] : p \in {q \in metaFiles : q[2] = batchKey}}
  /\ pEdition' = pEdition + 1
  /\ UNCHANGED <<cfgBatchSize, numNfts, cfgIndividual, ppc, metaFiles, imgPaths,
                 individualFiles>>

LookupDone ==
  /\ ppc = "lookup"
  /\ pEdition > ActualEndIndex
  /\ ppc' = IF allNfts = {} THEN "nometa" ELSE "image"
  /\ pEdition' = 1
  /\ UNCHANGED <<cfgBatchSize, numNfts, cfgIndividual, metaFiles, lookupKeys,
                 allNfts, imgPaths, individualFiles>>

\* workerFunction, one turn of its loop: getOutputPath and the write
ImageItem ==
  /\ ppc = "image"
  /\ pEdition <= ActualEndIndex
  /\ imgPaths' =
       IF pEdition \in allNfts
       THEN imgPaths
              \cup {<<pEdition, BatchKey(pEdition, ImageBatchSize(cfgBatchSize))>>}
       ELSE imgPaths
  /\ pEdition' = pEdition + 1
  /\ UNCHANGED <<cfgBatchSize, numNfts, cfgIndividual, ppc, metaFiles, lookupKeys,
                 allNfts, individualFiles>>

ImageDone ==
  /\ ppc = "image"
  /\ pEdition > ActualEndIndex
  /\ ppc' = "done"
  /\ UNCHANGED <<cfgBatchSize, numNfts, cfgIndividual, pEdition, metaFiles,
                 lookupKeys, allNfts, imgPaths, individualFiles>>

NextPlan ==
  \/ MetaItem /\ UNCHANGED <<genVars, upVars, fileVars, renderVars>>
  \/ ScanBatchDirs /\ UNCHANGED <<genVars, upVars, fileVars, renderVars>>
  \/ LookupItem /\ UNCHANGED <<genVars, upVars, fileVars, renderVars>>
  \/ LookupDone /\ UNCHANGED <<genVars, upVars, fileVars, renderVars>>
  \/ ImageItem /\ UNCHANGED <<genVars, upVars, fileVars, renderVars>>
  \/ ImageDone /\ UNCHANGED <<genVars, upVars, fileVars, renderVars>>

SpecPlan == InitPlan /\ [][NextPlan]_vars

PlanEnded == ppc \in {"done", "nometa"}

(***************************************************************************)
(* Reading a batch key back: the range a directory name denotes.           *)
(***************************************************************************)
DigitValue(c) == (CHOOSE d \in 1..10 : DigitChars[d] = c) - 1

RECURSIVE StrToNat(_)
StrToNat(s) ==
  IF Len(s) = 0 THEN 0
  ELSE 10 * StrToNat(SubSeq(s, 1, Len(s) - 1)) + DigitValue(s[Len(s)])

KeyRange(key) ==
  LET k == CHOOSE j \in 1..Len(key) : key[j] = "-"
  IN [start |-> StrToNat(SubSeq(key, 1, k - 1)),
      end |-> StrToNat(SubSeq(key, k + 1, Len(key)))]

\* every <<edition, key>> a component of the planner has computed so far
AssignedKeys == metaFiles \cup lookupKeys \cup imgPaths

Key_1_10 == <<"1", "-", "1", "0">>
Key_11_20 == <<"1", "1", "-", "2", "0">>
Key_21_30 == <<"2", "1", "-", "3", "0">>

(***************************************************************************)
(* C1.  For a batch size B > 0 the keys computed for the indices 1..N      *)
(* denote ranges that are exactly B wide, start at a multiple of B plus    *)
(* one, contain the index they were computed for, are pairwise equal or    *)
(* disjoint and leave no gap: a range that does not start at 1 follows     *)
(* directly on another assigned range.  For N = 25 and B = 10 the keys     *)
(* are exactly "1-10", "11-20" and "21-30", and 23 has key "21-30".        *)
(***************************************************************************)
C1_BatchPartition ==
  (cfgBatchSize.t = "num" /\ cfgBatchSize.v > 0) =>
    LET B == cfgBatchSize.v
        Keys == {p[2] : p \in AssignedKeys}
    IN /\ \A k \in Keys : IsBatchDirName(k)
       /\ LET Ranges == {KeyRange(k) : k \in Keys}
          IN /\ \A r \in Ranges :
                  /\ r.end - r.start + 1 = B
                  /\ (r.start - 1) % B = 0
                  /\ r.start = 1 \/ \E q \in Ranges : q.end = r.start - 1
             /\ \A r, q \in Ranges : r = q \/ r.end < q.start \/ q.end < r.start
             /\ Cardinality(Ranges) = Cardinality(Keys)
       /\ \A p \in AssignedKeys :
            KeyRange(p[2]).start <= p[1] /\ p[1] <= KeyRange(p[2]).end
       /\ (B = 10 /\ numNfts = 25 /\ ppc = "done") =>
            /\ {p[2] : p \in metaFiles} = {Key_1_10, Key_11_20, Key_21_30}
            /\ {p[2] : p \in imgPaths} = {Key_1_10, Key_11_20, Key_21_30}
            /\ <<23, Key_21_30>> \in metaFiles
            /\ <<23, Key_21_30>> \in imgPaths

C1_Witness ==
  /\ cfgBatchSize = Num(10)
  /\ numNfts = 25
  /\ ppc = "done"
  /\ <<25, Key_21_30>> \in imgPaths
  /\ <<10, Key_1_10>> \in metaFiles

(***************************************************************************)
(* C2.  When the planner run has ended, every item has its metadata, its   *)
(* metadata lookup and its image under one and the same batch key,         *)
(* whatever config.batchSize is (a positive number, absent, or zero).      *)
(***************************************************************************)
C2_SameKeyEverywhere ==
  PlanEnded =>
    \A e \in 1..numNfts :
      \E p \in metaFiles : p[1] = e /\ p \in lookupKeys /\ p \in imgPaths

(***************************************************************************)
(* C3.  With config.batchSize = 0 every index is assigned to one and the   *)
(* same grouping, and no index gets an ill-formed batch key: the key of    *)
(* an index is a batch directory name, or empty for the output root.       *)
(***************************************************************************)
C3_ZeroIsSingleBatch ==
  (cfgBatchSize = Num(0)) =>
    /\ \A p, q \in metaFiles : p[2] = q[2]
    /\ \A p \in metaFiles \cup individualFiles :
         p[2] = <<>> \/ IsBatchDirName(p[2])

(***************************************************************************)
(* SpecGen: the generation stage.  main() decides where to start,          *)
(* generateImages validates the start index, writes the first snapshot     *)
(* and either runs workerFunction on the main thread or spawns the worker  *)
(* threads; the handlers of the workers' events keep progressData and      *)
(* write it to generation_progress.json.  The process can be killed at     *)
(* any moment and invoked again.  Timestamps, the image format and the     *)
(* text of an error are left out of progressData.                          *)
(***************************************************************************)
PersistEvery == 10

Min(a, b) == IF a <= b THEN a ELSE b
\* a variant that takes the second argument
SecondOf(a, b) == b

Max(a, b) == IF a >= b THEN a ELSE b

Saved(pd) == [kind |-> "ok", data |-> pd]
Corrupt == [kind |-> "corrupt", data |-> NoProgress]

\* a variant that resumes at currentIndex itself
ResumeAtCurrentIndex(snap, force) ==
  IF force /\ snap.kind # "none" THEN [start |-> 1, unlink |-> TRUE]
  ELSE IF snap.kind = "none" THEN [start |-> 1, unlink |-> FALSE]
  ELSE IF snap.kind = "corrupt" THEN [start |-> 1, unlink |-> FALSE]
  ELSE IF snap.data.completed THEN [start |-> 1, unlink |-> TRUE]
  ELSE [start |-> snap.data.currentIndex, unlink |-> FALSE]

\* resumeImageGeneration: the start index, and whether the file is unlinked
ResumeImageGeneration(snap, force) ==
  IF force /\ snap.kind # "none" THEN [start |-> 1, unlink |-> TRUE]
  ELSE IF snap.kind = "none" THEN [start |-> 1, unlink |-> FALSE]
  ELSE IF snap.kind = "corrupt" THEN [start |-> 1, unlink |-> FALSE]
  ELSE IF snap.data.completed THEN [start |-> 1, unlink |-> TRUE]
  ELSE [start |-> snap.data.currentIndex + 1, unlink |-> FALSE]

\* main(): resume, start at the configured index, or start at 1
MainStartDecision(snap, force, cfgStart) ==
  IF snap.kind # "none" /\ ~force THEN ResumeImageGeneration(snap, force)
  ELSE IF ~Falsy(cfgStart) /\ cfgStart.v > 1 /\ ~force
       THEN [start |-> cfgStart.v, unlink |-> FALSE]
  ELSE [start |-> 1, unlink |-> FALSE]

\* imageConfig.numThreads of main(): config.imageGeneration.numThreads || 0
MainNumThreads(cfg) == OrDefault(cfg, Num(0))

\* numThreads of generateImages: the default covers undefined only
GenNumThreads(arg, cpus) == ParamDefault(arg, Num(Max(1, cpus - 1))).v

\* a variant that rounds down
NftsPerThreadFloor(totalNfts, n) == totalNfts \div n

\* Math.ceil(totalNfts / numThreads)
NftsPerThread(totalNfts, n) == (totalNfts + n - 1) \div n

RECURSIVE SortedSeq(_)
SortedSeq(S) ==
  IF S = {} THEN <<>>
  ELSE LET m == CHOOSE x \in S : \A y \in S : x <= y
       IN <<m>> \o SortedSeq(S \ {m})

\* the ranges of the workers generateImages spawns, in spawning order
ThreadRanges(startIdx, endIdx, n) ==
  LET per == NftsPerThread(endIdx - startIdx + 1, n)
      spawned == SortedSeq({i \in 0..(n - 1) : startIdx + (i * per) <= endIdx})
  IN [k \in 1..Len(spawned) |->
        [startIdx |-> startIdx + (spawned[k] * per),
         endIdx |-> Min(startIdx + ((spawned[k] + 1) * per) - 1, endIdx)]]

NewWorker(r) ==
  [startIdx |-> r.startIdx, endIdx |-> r.endIdx, next |-> r.startIdx,
   done |-> FALSE]

Msg(type, edition, count) ==
  [type |-> type, edition |-> edition, processedCount |-> count]

CfgStartChoices == {Undefined, Num(1), Num(2)}
CfgThreadChoices == {Undefined} \cup {Num(n) : n \in 0..MaxThreads}

\* one invocation on a fresh output directory, for every numThreads setting
InitPool ==
  /\ gForce = FALSE
  /\ gCfgStart = Undefined
  /\ gCfgThreads \in CfgThreadChoices
  /\ gCpus \in 2..MaxCpus
  /\ gEnd \in 1..MaxGenItems
  /\ snapshot = NoSnapshot
  /\ images = {}
  /\ run = 1
  /\ gpc = "main"
  /\ ProcIdle
  /\ PlanIdle
  /\ UploadIdle
  /\ FileIdle
  /\ RenderIdle

\* invocations that may be killed and repeated, on one or two threads
InitGen ==
  /\ gForce \in BOOLEAN
  /\ gCfgStart \in CfgStartChoices
  /\ gCfgThreads \in {Num(1), Num(2)}
  /\ gCpus = 2
  /\ gEnd \in 1..MaxResumeItems
  /\ snapshot = NoSnapshot
  /\ images = {}
  /\ run = 1
  /\ gpc = "main"
  /\ ProcIdle
  /\ PlanIdle
  /\ UploadIdle
  /\ FileIdle
  /\ RenderIdle

\* main(), index.ts 85-119, and resumeImageGeneration
MainDecide ==
  /\ gpc = "main"
  /\ LET d == MainStartDecision(snapshot, gForce, gCfgStart)
     IN /\ gLoaded' = snapshot
        /\ gStart' = d.start
        /\ snapshot' = IF d.unlink THEN NoSnapshot ELSE snapshot
  /\ gpc' = "generate"
  /\ UNCHANGED <<genCfgVars, images, run, numThreads, progressData,
                 completedThreads, totalGenerated, gResolved, workers, chan,
                 rendered>>

\* generateImages up to the first await or the spawning of the workers
GenerateImages ==
  /\ gpc = "generate"
  /\ LET n == GenNumThreads(MainNumThreads(gCfgThreads), gCpus)
         actualEndIndex == gEnd
         startIdx == gStart - 1
         endIdx == actualEndIndex - 1
         pd == [startIndex |-> gStart, currentIndex |-> gStart,
                endIndex |-> actualEndIndex,
                totalToGenerate |-> endIdx - startIdx + 1, generated |-> 0,
                errors |-> <<>>, completed |-> FALSE]
     IN /\ numThreads' = n
        /\ IF gStart < 1 \/ gStart > actualEndIndex
           THEN /\ gpc' = "threw"
                /\ UNCHANGED <<progressData, snapshot, workers, chan>>
           ELSE /\ progressData' = pd
                /\ snapshot' = Saved(pd)
                /\ IF n <= 1
                   THEN /\ gpc' = "single"
                        /\ workers' =
                             <<NewWorker([startIdx |-> startIdx, endIdx |-> endIdx])>>
                        /\ chan' = <<<<>>>>
                   ELSE /\ gpc' = "pool"
                        /\ workers' =
                             LET rs == ThreadRanges(startIdx, endIdx, n)
                             IN [k \in 1..Len(rs) |-> NewWorker(rs[k])]
                        /\ chan' =
                             [k \in 1..Len(ThreadRanges(startIdx, endIdx, n)) |-> <<>>]
  /\ UNCHANGED <<genCfgVars, images, run, gLoaded, gStart, completedThreads,
                 totalGenerated, gResolved, rendered>>

\* workerFunction, one turn of its loop: the item renders or fails.  Events
\* are posted only where there is a parentPort, that is on a worker thread.
WorkerStep(w, ok) ==
  /\ gpc \in {"single", "pool"}
  /\ w \in 1..Len(workers)
  /\ workers[w].next <= workers[w].endIdx
  /\ LET edition == workers[w].next + 1
     IN /\ images' = IF ok THEN images \cup {edition} ELSE images
        /\ rendered' = IF ok THEN rendered \cup {<<edition, w>>} ELSE rendered
        /\ chan' =
             IF gpc = "pool"
             THEN [chan EXCEPT ![w] =
                     Append(@, Msg(IF ok THEN "progress" ELSE "error", edition, 0))]
             ELSE chan
  /\ workers' = [workers EXCEPT ![w].next = @ + 1]
  /\ UNCHANGED <<genCfgVars, snapshot, run, gpc, gLoaded, gStart, numThreads,
                 progressData, completedThreads, totalGenerated, gResolved>>

\* workerFunction on a worker thread reaches the end of its range: it posts
\* done and the thread exits
WorkerFinish(w) ==
  /\ gpc = "pool"
  /\ w \in 1..Len(workers)
  /\ workers[w].next > workers[w].endIdx
  /\ ~workers[w].done
  /\ workers' = [workers EXCEPT ![w].done = TRUE]
  /\ chan' =
       [chan EXCEPT ![w] =
          @ \o <<Msg("done", 0, workers[w].endIdx - workers[w].startIdx + 1),
                 Msg("exit", 0, 0)>>]
  /\ UNCHANGED <<genCfgVars, genDiskVars, run, gpc, gLoaded, gStart, numThreads,
                 progressData, completedThreads, totalGenerated, gResolved,
                 rendered>>

\* the single-thread branch of generateImages after workerFunction returned
SingleFinish ==
  /\ gpc = "single"
  /\ workers[1].next > workers[1].endIdx
  /\ LET pd == [progressData EXCEPT
                  !.generated = workers[1].endIdx - workers[1].startIdx + 1,
                  !.currentIndex = gEnd,
                  !.completed = TRUE]
     IN /\ progressData' = pd
        /\ snapshot' = Saved(pd)
  /\ gResolved' = TRUE
  /\ gpc' = "ended"
  /\ UNCHANGED <<genCfgVars, images, run, gLoaded, gStart, numThreads,
                 completedThreads, totalGenerated, workers, chan, rendered>>

\* progressData after the handlers of worker.on('message') and
\* worker.on('exit') have run for event m
AfterEvent(m) ==
  CASE m.type = "progress" ->
         [pd |-> [progressData EXCEPT
                    !.generated = @ + 1,
                    !.currentIndex = Max(@, m.edition)],
          write |-> (progressData.generated + 1) % PersistEvery = 0
                      \/ progressData.generated + 1 = progressData.totalToGenerate,
          completedThreads |-> completedThreads,
          totalGenerated |-> totalGenerated,
          resolve |-> FALSE]
    [] m.type = "error" ->
         [pd |-> [progressData EXCEPT !.errors = Append(@, m.edition)],
          write |-> TRUE,
          completedThreads |-> completedThreads,
          totalGenerated |-> totalGenerated,
          resolve |-> FALSE]
    [] m.type = "done" ->
         LET all == completedThreads + 1 = numThreads
         IN [pd |-> IF all
                    THEN [progressData EXCEPT
                            !.generated = totalGenerated + m.processedCount,
                            !.completed = TRUE]
                    ELSE progressData,
             write |-> all,
             completedThreads |-> completedThreads + 1,
             totalGenerated |-> totalGenerated + m.processedCount,
             resolve |-> all]
    [] OTHER ->
         LET all == completedThreads + 1 = numThreads
         IN [pd |-> IF all THEN [progressData EXCEPT !.completed = TRUE]
                    ELSE progressData,
             write |-> all,
             completedThreads |-> completedThreads + 1,
             totalGenerated |-> totalGenerated,
             resolve |-> all]

\* the main thread handles the oldest event of worker w
HandleEvent(w) ==
  /\ gpc = "pool"
  /\ w \in 1..Len(chan)
  /\ chan[w] # <<>>
  /\ LET a == AfterEvent(Head(chan[w]))
     IN /\ progressData' = a.pd
        /\ snapshot' = IF a.write THEN Saved(a.pd) ELSE snapshot
        /\ completedThreads' = a.completedThreads
        /\ totalGenerated' = a.totalGenerated
        /\ gResolved' = (gResolved \/ a.resolve)
  /\ chan' = [chan EXCEPT ![w] = Tail(@)]
  /\ UNCHANGED <<genCfgVars, images, run, gpc, gLoaded, gStart, numThreads,
                 workers, rendered>>

\* every worker thread has exited and every event is handled: the process
\* ends
ProcessExit ==
  /\ gpc = "pool"
  /\ \A w \in 1..Len(workers) : workers[w].done /\ chan[w] = <<>>
  /\ gpc' = "ended"
  /\ UNCHANGED <<genCfgVars, genDiskVars, run, gLoaded, gStart, numThreads,
                 progressData, completedThreads, totalGenerated, gResolved,
                 workers, chan, rendered>>

\* a handler that writes generation_progress.json is about to run
WritePending ==
  \/ gpc = "generate" /\ gStart >= 1 /\ gStart <= gEnd
  \/ gpc = "single" /\ workers[1].next > workers[1].endIdx
  \/ gpc = "pool"
       /\ \E w \in 1..Len(chan) :
            chan[w] # <<>> /\ AfterEvent(Head(chan[w])).write

\* what is in the memory of the process is gone when the process is
MemoryLost ==
  /\ gLoaded' = NoSnapshot
  /\ gStart' = 0
  /\ numThreads' = 0
  /\ progressData' = NoProgress
  /\ completedThreads' = 0
  /\ totalGenerated' = 0
  /\ gResolved' = FALSE
  /\ workers' = <<>>
  /\ chan' = <<>>
  /\ rendered' = {}

\* the process is killed between two handlers
Kill ==
  /\ gpc \in {"single", "pool"}
  /\ gpc' = "killed"
  /\ MemoryLost
  /\ UNCHANGED <<genCfgVars, genDiskVars, run>>

\* the process is killed inside fs.writeFileSync, which truncates the file
\* and then writes it: a partial file is left
KillInWrite ==
  /\ WritePending
  /\ gpc' = "killed"
  /\ snapshot' = Corrupt
  /\ MemoryLost
  /\ UNCHANGED <<genCfgVars, images, run>>

\* the program is run again on the same output directory
NewInvocation ==
  /\ gpc \in {"ended", "killed", "threw"}
  /\ run < MaxRuns
  /\ run' = run + 1
  /\ gpc' = "main"
  /\ MemoryLost
  /\ UNCHANGED <<genCfgVars, genDiskVars>>

NextPool ==
  \/ MainDecide /\ UNCHANGED <<planVars, upVars, fileVars, renderVars>>
  \/ GenerateImages /\ UNCHANGED <<planVars, upVars, fileVars, renderVars>>
  \/ \E w \in 1..MaxThreads, ok \in BOOLEAN : WorkerStep(w, ok) /\ UNCHANGED <<planVars, upVars, fileVars, renderVars>>
  \/ \E w \in 1..MaxThreads : WorkerFinish(w) /\ UNCHANGED <<planVars, upVars, fileVars, renderVars>>
  \/ SingleFinish /\ UNCHANGED <<planVars, upVars, fileVars, renderVars>>
  \/ \E w \in 1..MaxThreads : HandleEvent(w) /\ UNCHANGED <<planVars, upVars, fileVars, renderVars>>
  \/ ProcessExit /\ UNCHANGED <<planVars, upVars, fileVars, renderVars>>

SpecPool == InitPool /\ [][NextPool]_vars

\* one invocation, long enough for the periodic write, on one or two threads
InitLong ==
  /\ gForce = FALSE
  /\ gCfgStart = Undefined
  /\ gCfgThreads \in {Num(1), Num(2)}
  /\ gCpus = 2
  /\ gEnd = MaxLongItems
  /\ snapshot = NoSnapshot
  /\ images = {}
  /\ run = 1
  /\ gpc = "main"
  /\ ProcIdle
  /\ PlanIdle
  /\ UploadIdle
  /\ FileIdle
  /\ RenderIdle

SpecLong == InitLong /\ [][NextPool]_vars

NextGen ==
  \/ NextPool
  \/ Kill /\ UNCHANGED <<planVars, upVars, fileVars, renderVars>>
  \/ KillInWrite /\ UNCHANGED <<planVars, upVars, fileVars, renderVars>>
  \/ NewInvocation /\ UNCHANGED <<planVars, upVars, fileVars, renderVars>>

SpecGen == InitGen /\ [][NextGen]_vars

(***************************************************************************)
(* C4.  In multi-worker mode the ranges of the spawned workers are         *)
(* non-empty, start at the first index of the request and end at its last  *)
(* index, follow one another without gap or overlap, and are each          *)
(* ceil(size / numThreads) long except possibly the last, which is not     *)
(* longer; hence every index has exactly one owner, a worker writes        *)
(* images of its own range only and no image is written by two workers.    *)
(* Four workers over the indices 0..99 get [0,24], [25,49], [50,74] and    *)
(* [75,99].                                                                *)
(***************************************************************************)
C4_Partition ==
  /\ ThreadRanges(0, 99, 4) =
       <<[startIdx |-> 0, endIdx |-> 24], [startIdx |-> 25, endIdx |-> 49],
         [startIdx |-> 50, endIdx |-> 74], [startIdx |-> 75, endIdx |-> 99]>>
  /\ (gpc = "pool") =>
       LET startIdx == gStart - 1
           endIdx == gEnd - 1
           size == endIdx - startIdx + 1
           per == CHOOSE c \in 1..size :
                    c * numThreads >= size /\ (c - 1) * numThreads < size
           n == Len(workers)
       IN /\ numThreads >= 2
          /\ n >= 1
          /\ workers[1].startIdx = startIdx
          /\ workers[n].endIdx = endIdx
          /\ \A k \in 1..n : workers[k].startIdx <= workers[k].endIdx
          /\ \A k \in 1..(n - 1) :
               /\ workers[k + 1].startIdx = workers[k].endIdx + 1
               /\ workers[k].endIdx - workers[k].startIdx + 1 = per
          /\ workers[n].endIdx - workers[n].startIdx + 1 <= per
          /\ \A i \in startIdx..endIdx :
               Cardinality({k \in 1..n : workers[k].startIdx <= i
                                          /\ i <= workers[k].endIdx}) = 1
          /\ \A p \in rendered :
               /\ workers[p[2]].startIdx <= p[1] - 1
               /\ p[1] - 1 <= workers[p[2]].endIdx
          /\ \A p, q \in rendered : p[1] = q[1] => p[2] = q[2]

C4_Witness ==
  /\ gpc = "pool"
  /\ numThreads = 2
  /\ gEnd = 3
  /\ Len(workers) = 2
  /\ {p[1] : p \in rendered} = 1..3

(***************************************************************************)
(* C5.  In multi-worker mode generateImages is resolved, and a snapshot    *)
(* with completed = true is on disk, only when every spawned worker has    *)
(* posted its done event.                                                  *)
(***************************************************************************)
C5_DoneAfterAllCompletions ==
  (gpc = "pool" /\ (gResolved \/ snapshot.data.completed)) =>
    \A w \in 1..Len(workers) : workers[w].done

(***************************************************************************)
(* C6.  With config.imageGeneration.numThreads = 0 the generation stage    *)
(* runs with cpus().length - 1 workers, and not in single-worker mode      *)
(* when that is two or more.                                               *)
(***************************************************************************)
C6_ZeroSelectsAuto ==
  (gCfgThreads = Num(0) /\ gpc \in {"single", "pool"}) =>
    /\ numThreads = Max(1, gCpus - 1)
    /\ (gCpus - 1 >= 2) => gpc = "pool"

(***************************************************************************)
(* C7.  The start index of a generation run.                               *)
(***************************************************************************)
StartDecided == gpc \in {"generate", "single", "pool", "threw", "ended"}

SawUnfinished == gLoaded.kind = "ok" /\ ~gLoaded.data.completed

CharCode(c) ==
  CASE c = "-" -> 45
    [] c = "0" -> 48 [] c = "1" -> 49 [] c = "2" -> 50 [] c = "3" -> 51
    [] c = "4" -> 52 [] c = "5" -> 53 [] c = "6" -> 54 [] c = "7" -> 55
    [] c = "8" -> 56 [] c = "9" -> 57

RECURSIVE StrLess(_, _)
StrLess(a, b) ==
  IF a = <<>> THEN b # <<>>
  ELSE IF b = <<>> THEN FALSE
  ELSE IF Head(a) = Head(b) THEN StrLess(Tail(a), Tail(b))
  ELSE CharCode(Head(a)) < CharCode(Head(b))

\* batchDirs.sort(): the default, lexicographic, order
RECURSIVE SortKeys(_)
SortKeys(S) ==
  IF S = {} THEN <<>>
  ELSE LET m == CHOOSE k \in S : \A o \in S \ {k} : StrLess(k, o)
       IN <<m>> \o SortKeys(S \ {m})

\* the file after a write that was cut short: JSON.parse throws on it
TornFile == [torn |-> TRUE]

\* the new progress object is returned when the file is missing or unreadable
getUploadProgress(disk) ==
  IF "torn" \in DOMAIN disk THEN EmptyProgress ELSE disk

saveUploadProgress(p) == p

\* a variant that consults failedUploads
IsUploadedByFailRecord(p, f) == f \in DOMAIN p.failed

\* progress.uploadedFiles[fileName] is truthy
IsUploaded(p, f) == f \in DOMAIN p.uploaded

\* a variant that counts failed files too
AllBatchFilesAttempted(files, p) ==
  \A i \in 1..Len(files) : IsUploaded(p, files[i]) \/ files[i] \in DOMAIN p.failed

\* files.every(file => progress.uploadedFiles[fileName])
AllBatchFilesUploaded(files, p) ==
  \A i \in 1..Len(files) : IsUploaded(p, files[i])

\* a variant that also leaves out the files with a failure record
FilesNeverFailed(files, p) ==
  SelectSeq(files, LAMBDA f : ~IsUploaded(p, f) /\ f \notin DOMAIN p.failed)

FilesToUpload(files, p) == SelectSeq(files, LAMBDA f : ~IsUploaded(p, f))

\* a variant that takes one file more
WindowOneMore(toUpload, i, conc) ==
  {toUpload[j] : j \in (i + 1)..Min(i + conc + 1, Len(toUpload))}

\* filesToUpload.slice(i, i + concurrentUploads)
Window(toUpload, i, conc) ==
  {toUpload[j] : j \in (i + 1)..Min(i + conc, Len(toUpload))}

\* a variant that leaves the failedUploads entry in place
RecordSuccessOnly(p, f, driveId) ==
  [p EXCEPT !.uploaded = [g \in DOMAIN @ \cup {f} |->
                            IF g = f THEN driveId ELSE @[g]]]

\* the try branch of a task: the uploadedFiles entry is written and the
\* failedUploads entry deleted
RecordSuccess(p, f, driveId) ==
  [p EXCEPT !.uploaded = [g \in DOMAIN @ \cup {f} |->
                            IF g = f THEN driveId ELSE @[g]],
            !.failed = [g \in DOMAIN @ \ {f} |-> @[g]]]

\* a variant that counts every failure as the first
RecordFirstFailure(p, f, retryCount) ==
  [p EXCEPT !.failed = [g \in DOMAIN @ \cup {f} |->
                          IF g = f THEN 1 ELSE @[g]]]

\* the catch branch of a task: attempts is retryCount + 1
RecordFailure(p, f, retryCount) ==
  [p EXCEPT !.failed = [g \in DOMAIN @ \cup {f} |->
                          IF g = f THEN retryCount + 1 ELSE @[g]]]

\* the statements after the window loop: save, count, mark, save
FinalProgress(p, key, failCount) ==
  IF failCount = 0 THEN [p EXCEPT !.last = key] ELSE p

UploadBatchSizes == 1..MaxUploadBatch

InitUpload ==
  /\ uDelete \in BOOLEAN
  /\ uConc \in 1..MaxConcurrent
  /\ \E n \in 1..MaxUploadItems, b \in UploadBatchSizes :
       uDirs = [k \in {BatchKey(e, Num(b)) : e \in 1..n} |->
                  {e \in 1..n : BatchKey(e, Num(b)) = k}]
  /\ ckpt = EmptyProgress
  /\ uRemote = {}
  /\ uRun = 1
  /\ upc = "start"
  /\ UploadProcIdle
  /\ PlanIdle
  /\ GenIdle
  /\ FileIdle
  /\ RenderIdle

\* uploadAllBatchesToDrive up to its loop
UploadAllBegin ==
  /\ upc = "start"
  /\ LET batchDirs == SortKeys({k \in DOMAIN uDirs : IsBatchDirName(k)})
     IN IF batchDirs = <<>>
        THEN /\ upc' = "done"
             /\ UNCHANGED <<uQueue, uAllProgress>>
        ELSE /\ upc' = "loop"
             /\ uQueue' = batchDirs
             /\ uAllProgress' = getUploadProgress(ckpt)
  /\ uCheck' = "none"
  /\ UNCHANGED <<upCfgVars, uRemote, uDirs, ckpt, uRun, progress, uBatch, uFiles,
                 uToUpload, uI, tasks, uResults, uToken, uLoaded, uRequests,
                 uListed, uOpened>>

\* one turn of the loop: the skip, or uploadBatchToDrive up to its first await
BatchBegin ==
  /\ upc = "loop"
  /\ uQueue # <<>>
  /\ LET key == Head(uQueue)
         p == getUploadProgress(ckpt)
         present == uDirs[key]
         files == SortedSeq(present)
     IN IF uAllProgress.last = key
        THEN /\ uQueue' = Tail(uQueue)
             /\ UNCHANGED <<upc, progress, uBatch, uFiles, uLoaded, uListed>>
        ELSE /\ progress' = p
             /\ uLoaded' = p
             /\ uBatch' = key
             /\ IF p.last = key
                THEN /\ uQueue' = Tail(uQueue)
                     /\ UNCHANGED <<upc, uFiles, uListed>>
                ELSE /\ uListed' = uListed \cup
                          {[batch |-> key,
                            full |-> present # {} /\
                                     \A f \in present : IsUploaded(p, f)]}
                     /\ uFiles' = files
                     /\ IF files = <<>>
                        THEN /\ uQueue' = Tail(uQueue)
                             /\ UNCHANGED upc
                        ELSE /\ upc' = "setup"
                             /\ UNCHANGED uQueue
  /\ uCheck' = "none"
  /\ UNCHANGED <<upCfgVars, uRemote, uDirs, ckpt, uRun, uAllProgress, uToUpload, uI,
                 tasks, uResults, uToken, uRequests, uOpened>>

\* getAccessToken, createOrGetBatchFolder and the filter; with nothing left to
\* upload the window loop is not entered and the function runs to its end
BatchSetup(tokenOk, folderOk) ==
  /\ upc = "setup"
  /\ uToken => tokenOk
  /\ uCheck' = "none"
  /\ IF ~tokenOk
     THEN /\ uRequests' = uRequests \cup {<<"token", uBatch>>}
          /\ upc' = "loop"
          /\ uQueue' = Tail(uQueue)
          /\ UNCHANGED <<ckpt, progress, uToUpload, uI, uResults, uToken>>
     ELSE /\ uToken' = TRUE
          /\ uRequests' = uRequests \cup {<<"folder", uBatch>>} \cup
                          (IF uToken THEN {} ELSE {<<"token", uBatch>>})
          /\ IF ~folderOk
             THEN /\ upc' = "done"
                  /\ UNCHANGED <<ckpt, progress, uQueue, uToUpload, uI,
                                 uResults>>
             ELSE LET todo == FilesToUpload(uFiles, progress)
                      final == FinalProgress(progress, uBatch, 0)
                  IN /\ uToUpload' = todo
                     /\ uI' = 0
                     /\ uResults' = [ok |-> 0, failed |-> 0]
                     /\ IF todo = <<>>
                        THEN /\ ckpt' = saveUploadProgress(final)
                             /\ progress' = final
                             /\ upc' = "loop"
                             /\ uQueue' = Tail(uQueue)
                        ELSE /\ upc' = "window"
                             /\ UNCHANGED <<ckpt, progress, uQueue>>
  /\ UNCHANGED <<upCfgVars, uRemote, uDirs, uRun, uAllProgress, uBatch, uFiles, tasks,
                 uLoaded, uListed, uOpened>>

\* batch.map(async ...): every task of the window runs to its first await
WindowStart ==
  /\ upc = "window"
  /\ LET window == Window(uToUpload, uI, uConc)
     IN /\ tasks' = [f \in window |->
                      IF IsUploaded(progress, f)
                      THEN [state |-> "ok", retryCount |-> 0]
                      ELSE [state |-> "inflight",
                            retryCount |-> IF f \in DOMAIN progress.failed
                                           THEN progress.failed[f]
                                           ELSE 0]]
        /\ uOpened' = uOpened \cup {f \in window : ~IsUploaded(progress, f)}
        /\ uRequests' = uRequests \cup
             (IF \E f \in window : ~IsUploaded(progress, f)
              THEN {<<"session", uBatch>>} ELSE {})
  /\ upc' = "inflight"
  /\ uCheck' = "none"
  /\ UNCHANGED <<upCfgVars, uRemote, uDirs, ckpt, uRun, uQueue, uAllProgress, progress,
                 uBatch, uFiles, uToUpload, uI, uResults, uToken, uLoaded,
                 uListed>>

\* a variant in which the error of fs.unlinkSync reaches the catch branch
\* of the task
UnlinkErrorRecorded(p, f, retryCount, unlinkFailed) ==
  IF unlinkFailed THEN RecordFailure(p, f, retryCount) ELSE p

\* the try/catch around fs.unlinkSync: a failure is logged and progress is
\* left as it is
AfterUnlink(p, f, retryCount, unlinkFailed) == p

\* uploadFileToDrive resolves or rejects for one task; after a success the
\* local file is unlinked if the configuration asks for it, which can fail
TaskSettle(f, ok, unlinkOk) ==
  /\ upc = "inflight"
  /\ f \in DOMAIN tasks
  /\ tasks[f].state = "inflight"
  /\ IF ok
     THEN /\ progress' =
               AfterUnlink(RecordSuccess(progress, f, uRun), f,
                           tasks[f].retryCount, uDelete /\ ~unlinkOk)
          /\ uDirs' = IF uDelete /\ unlinkOk
                      THEN [uDirs EXCEPT ![uBatch] = @ \ {f}]
                      ELSE uDirs
          /\ uRemote' = uRemote \cup {<<f, uRun>>}
          /\ tasks' = [tasks EXCEPT ![f].state = "ok"]
     ELSE /\ progress' = RecordFailure(progress, f, tasks[f].retryCount)
          /\ tasks' = [tasks EXCEPT ![f].state = "failed"]
          /\ UNCHANGED <<uDirs, uRemote>>
  /\ uCheck' = "none"
  /\ UNCHANGED <<upCfgVars, ckpt, uRun, upc, uQueue, uAllProgress, uBatch, uFiles,
                 uToUpload, uI, uResults, uToken, uLoaded, uRequests, uListed,
                 uOpened>>

\* Promise.all settles: save, completion check, and either the pause before
\* the next window or the end of the function
WindowSettled ==
  /\ upc = "inflight"
  /\ \A f \in DOMAIN tasks : tasks[f].state # "inflight"
  /\ LET results ==
           [ok |-> uResults.ok +
                   Cardinality({f \in DOMAIN tasks : tasks[f].state = "ok"}),
            failed |-> uResults.failed +
                   Cardinality({f \in DOMAIN tasks : tasks[f].state = "failed"})]
         checked == IF AllBatchFilesUploaded(uFiles, progress)
                    THEN [progress EXCEPT !.last = uBatch]
                    ELSE progress
         final == FinalProgress(checked, uBatch, results.failed)
     IN /\ uResults' = results
        /\ tasks' = EmptyMap
        /\ IF uI + uConc < Len(uToUpload)
           THEN /\ ckpt' = saveUploadProgress(progress)
                /\ progress' = checked
                /\ uI' = uI + uConc
                /\ upc' = "window"
                /\ uCheck' = "window"
                /\ UNCHANGED uQueue
           ELSE /\ ckpt' = saveUploadProgress(final)
                /\ progress' = final
                /\ upc' = "loop"
                /\ uQueue' = Tail(uQueue)
                /\ uCheck' = "final"
                /\ UNCHANGED uI
  /\ UNCHANGED <<upCfgVars, uRemote, uDirs, uRun, uAllProgress, uBatch, uFiles, uToUpload,
                 uToken, uLoaded, uRequests, uListed, uOpened>>

\* the loop of uploadAllBatchesToDrive has visited every batch
UploadAllEnd ==
  /\ upc = "loop"
  /\ uQueue = <<>>
  /\ upc' = "done"
  /\ uCheck' = "none"
  /\ UNCHANGED <<upCfgVars, uRemote, uDirs, ckpt, uRun, uQueue, uAllProgress, progress,
                 uBatch, uFiles, uToUpload, uI, tasks, uResults, uToken,
                 uLoaded, uRequests, uListed, uOpened>>

UploadMemoryLost ==
  /\ uQueue' = <<>>
  /\ uAllProgress' = EmptyProgress
  /\ progress' = EmptyProgress
  /\ uBatch' = <<>>
  /\ uFiles' = <<>>
  /\ uToUpload' = <<>>
  /\ uI' = 0
  /\ tasks' = EmptyMap
  /\ uResults' = [ok |-> 0, failed |-> 0]
  /\ uToken' = FALSE
  /\ uLoaded' = EmptyProgress
  /\ uRequests' = {}
  /\ uListed' = {}
  /\ uOpened' = {}
  /\ uCheck' = "none"

\* the process is interrupted while the transfer runs
UploadKill ==
  /\ upc \in {"loop", "setup", "window", "inflight"}
  /\ upc' = "killed"
  /\ UploadMemoryLost
  /\ UNCHANGED <<upCfgVars, uRemote, uDirs, ckpt, uRun>>

\* the process is interrupted inside the fs.writeFileSync of
\* saveUploadProgress, which truncates the file and then writes it
UploadKillInWrite ==
  /\ upc = "inflight"
  /\ \A f \in DOMAIN tasks : tasks[f].state # "inflight"
  /\ upc' = "killed"
  /\ ckpt' = TornFile
  /\ UploadMemoryLost
  /\ UNCHANGED <<upCfgVars, uRemote, uDirs, uRun>>

\* the program is started again over the same output directory
UploadAgain ==
  /\ upc \in {"done", "killed"}
  /\ uRun < MaxUploadRuns
  /\ uRun' = uRun + 1
  /\ upc' = "start"
  /\ UploadMemoryLost
  /\ UNCHANGED <<upCfgVars, uRemote, uDirs, ckpt>>

NextUpload ==
  \/ UploadAllBegin /\ UNCHANGED <<planVars, genVars, fileVars, renderVars>>
  \/ BatchBegin /\ UNCHANGED <<planVars, genVars, fileVars, renderVars>>
  \/ \E tokenOk \in BOOLEAN, folderOk \in BOOLEAN :
       BatchSetup(tokenOk, folderOk) /\ UNCHANGED <<planVars, genVars, fileVars, renderVars>>
  \/ WindowStart /\ UNCHANGED <<planVars, genVars, fileVars, renderVars>>
  \/ \E f \in DOMAIN tasks, ok \in BOOLEAN :
       TaskSettle(f, ok, TRUE) /\ UNCHANGED <<planVars, genVars, fileVars, renderVars>>
  \/ WindowSettled /\ UNCHANGED <<planVars, genVars, fileVars, renderVars>>
  \/ UploadAllEnd /\ UNCHANGED <<planVars, genVars, fileVars, renderVars>>
  \/ UploadKill /\ UNCHANGED <<planVars, genVars, fileVars, renderVars>>
  \/ UploadKillInWrite /\ UNCHANGED <<planVars, genVars, fileVars, renderVars>>
  \/ UploadAgain /\ UNCHANGED <<planVars, genVars, fileVars, renderVars>>

SpecUpload == InitUpload /\ [][NextUpload]_vars


Range(seq) == {seq[i] : i \in 1..Len(seq)}

C10_SkipsFullyUploaded ==
  /\ \A l \in uListed : ~l.full
  /\ \A r \in uRequests : \A l \in uListed : l.batch = r[2] => ~l.full


(***************************************************************************)
(* The upload of one file: one task of uploadBatchToDrive (438-494), that  *)
(* is uploadFileToDrive, initializeUploadSession and uploadFileInChunks.   *)
(* Sizes are counted in units (MiB in the examples); the remote end        *)
(* answers each request as it likes: without any failure for files of up   *)
(* to MaxFileSize units, with up to MaxFailures failures for files of up   *)
(* to MaxRetryFileSize units.                                              *)
(***************************************************************************)
RECURSIVE Pow(_, _)
Pow(b, e) == IF e = 0 THEN 1 ELSE b * Pow(b, e - 1)

\* Math.random() * 1000 lies in [0, JitterSpan)
JitterSpan == 1000

BackoffBaseHalved(r) == Pow(2, r - 1) * 1000

\* Math.pow(2, retries) * 1000
BackoffBase(r) == Pow(2, r) * 1000

\* the delay passed to setTimeout lies in [lo, hi)
BackoffDelay(r) == [lo |-> BackoffBase(r), hi |-> BackoffBase(r) + JitterSpan]

ChunkEndUnclamped(from, chunkSize, fileSize) == from + chunkSize

\* const end = Math.min(uploadedBytes + chunkSize, fileSize)
ChunkEnd(from, chunkSize, fileSize) == Min(from + chunkSize, fileSize)

\* Content-Range: bytes ${uploadedBytes}-${end - 1}/${fileSize}
ContentRange(from, chunkSize, fileSize) ==
  [first |-> from, last |-> ChunkEnd(from, chunkSize, fileSize) - 1,
   total |-> fileSize]

CanRetryOnceMore(r, maxRetries) == r <= maxRetries

\* a variant that never gives up
CanRetryAlways(r, maxRetries) == TRUE

\* if (retries < maxRetries)
CanRetry(r, maxRetries) == r < maxRetries

\* a variant that retries every failed PUT
RetryableKindsAndOthers == {"429", "5xx", "network", "4xx"}

\* statuses the PUT handler retries, and the request error event
RetryableKinds == {"429", "5xx", "network"}

InitFile ==
  /\ \/ /\ fBudget = 0
        /\ fSize \in 0..MaxFileSize
        /\ fChunk \in 1..MaxChunkSize
     \/ /\ fBudget = MaxFailures
        /\ fSize \in 0..MaxRetryFileSize
        /\ fChunk \in 1..MaxRetryFileSize
  /\ fMaxRetries \in 0..MaxRetries
  /\ fpc = "open"
  /\ uploadedBytes = 0
  /\ retries = 0
  /\ fRecord = "none"
  /\ fPuts = <<>>
  /\ fDelays = <<>>
  /\ fConsec = 0
  /\ fFails = 0
  /\ fLast = NoFailure
  /\ fAnswer = NoAnswer
  /\ PlanIdle
  /\ GenIdle
  /\ UploadIdle
  /\ RenderIdle

\* uploadNextChunk up to the creation of the chunk stream, for offset from
UploadNextChunk(from) ==
  IF from >= fSize
  THEN /\ fpc' = "resolved"
       /\ fRecord' = "uploaded"
  ELSE /\ fpc' = "read"
       /\ UNCHANGED fRecord

\* the promise rejects and the task records the file in failedUploads
Reject(call, kind, attempts) ==
  /\ fpc' = "rejected"
  /\ fRecord' = "failed"
  /\ fLast' = [call |-> call, kind |-> kind, attempts |-> attempts]

\* a failed attempt of the current chunk: the three handlers share this code
RetryOrReject(call, kind) ==
  /\ fConsec' = fConsec + 1
  /\ fFails' = fFails + 1
  /\ IF CanRetry(retries, fMaxRetries)
     THEN /\ retries' = retries + 1
          /\ fDelays' = Append(fDelays,
               [handler |-> call, first |-> uploadedBytes,
                attempt |-> retries + 1,
                delay |-> BackoffDelay(retries + 1)])
          /\ fpc' = "wait"
          /\ UNCHANGED <<fRecord, fLast>>
     ELSE /\ Reject(call, kind, fConsec + 1)
          /\ UNCHANGED <<retries, fDelays>>

\* initializeUploadSession answers
OpenSession(kind) ==
  /\ fpc = "open"
  /\ kind \in {"200", "429", "5xx", "network", "4xx"}
  /\ IF kind = "200"
     THEN /\ UploadNextChunk(0)
          /\ UNCHANGED <<fFails, fLast>>
     ELSE /\ fFails < fBudget
          /\ fFails' = fFails + 1
          /\ Reject("open", kind, 1)
  /\ UNCHANGED <<fSize, fChunk, fMaxRetries, fBudget, uploadedBytes, retries, fPuts,
                 fDelays, fConsec, fAnswer>>

\* the chunk stream ends and the PUT is sent, or the stream fails
ChunkRead(ok) ==
  /\ fpc = "read"
  /\ IF ok
     THEN /\ fPuts' = Append(fPuts, ContentRange(uploadedBytes, fChunk, fSize))
          /\ fpc' = "put"
          /\ UNCHANGED <<retries, fRecord, fDelays, fConsec, fFails, fLast>>
     ELSE /\ fFails < fBudget
          /\ RetryOrReject("read", "read")
          /\ UNCHANGED fPuts
  /\ UNCHANGED <<fSize, fChunk, fMaxRetries, fBudget, uploadedBytes, fAnswer>>

\* a variant that lets the counter run on
RetriesKept(r) == r

\* retries = 0, in the handlers of a 2xx and of a 308 answer
RetriesAfterConfirm(r) == 0

\* the PUT is answered, or its request fails; a 308 answer names in its
\* Range header the offset up to which the server holds the file, which the
\* handler does not read
PutAnswer(kind, confirmed) ==
  /\ fpc = "put"
  /\ kind \in {"2xx", "308", "429", "5xx", "network", "4xx"}
  /\ LET end == ChunkEnd(uploadedBytes, fChunk, fSize)
     IN /\ confirmed = CASE kind = "2xx" -> end
                         [] kind = "308" -> confirmed
                         [] OTHER -> uploadedBytes
        /\ confirmed \in uploadedBytes..end
        /\ fAnswer' = [kind |-> kind, put |-> Len(fPuts), confirmed |-> confirmed]
        /\ IF kind \in {"2xx", "308"}
           THEN /\ uploadedBytes' = end
                /\ retries' = RetriesAfterConfirm(retries)
                /\ fConsec' = 0
                /\ UploadNextChunk(end)
                /\ UNCHANGED <<fDelays, fFails, fLast>>
           ELSE /\ fFails < fBudget
                /\ IF kind \in RetryableKinds
                   THEN RetryOrReject("put", kind)
                   ELSE /\ fConsec' = fConsec + 1
                        /\ fFails' = fFails + 1
                        /\ Reject("put", kind, fConsec + 1)
                        /\ UNCHANGED <<retries, fDelays>>
                /\ UNCHANGED uploadedBytes
  /\ UNCHANGED <<fSize, fChunk, fMaxRetries, fBudget, fPuts>>

\* setTimeout(uploadNextChunk, delay) fires
RetryTimer ==
  /\ fpc = "wait"
  /\ UploadNextChunk(uploadedBytes)
  /\ UNCHANGED <<fSize, fChunk, fMaxRetries, fBudget, uploadedBytes, retries, fPuts,
                 fDelays, fConsec, fFails, fLast, fAnswer>>

NextFile ==
  \/ \E kind \in {"200", "429", "5xx", "network", "4xx"} :
       OpenSession(kind) /\ UNCHANGED <<planVars, genVars, upVars, renderVars>>
  \/ \E ok \in BOOLEAN :
       ChunkRead(ok) /\ UNCHANGED <<planVars, genVars, upVars, renderVars>>
  \/ \E kind \in {"2xx", "308", "429", "5xx", "network", "4xx"},
        confirmed \in 0..(MaxFileSize + 1) :
       PutAnswer(kind, confirmed) /\ UNCHANGED <<planVars, genVars, upVars, renderVars>>
  \/ RetryTimer /\ UNCHANGED <<planVars, genVars, upVars, renderVars>>

SpecFile == InitFile /\ [][NextFile]_vars


CeilDiv(a, b) == (a + b - 1) \div b

PutSize(p) == p.last - p.first + 1

\* the number of PUTs sent so far for the chunk at offset from
Attempts(from) == Cardinality({i \in 1..Len(fPuts) : fPuts[i].first = from})

(* C11: while no request of the session has failed, for a file of S > 0    *)
(* units and chunks of C units, the i-th PUT carries the bytes             *)
(* (i-1)*C .. min(i*C, S) - 1 and declares the total S, so the PUTs are in *)
(* increasing byte order, contiguous and without overlap, each of C units  *)
(* except the last; there are never more than ceil(S/C) of them, and when  *)
(* the upload resolves there are exactly ceil(S/C) and the last ends at    *)
(* S-1.  With C = 5 and S = 12 these are three PUTs of 5, 5 and 2 units.   *)
C11_ChunkSequence ==
  (fpc # "off" /\ fFails = 0 /\ fSize > 0) =>
    /\ \A i \in 1..Len(fPuts) :
         /\ fPuts[i].first = (i - 1) * fChunk
         /\ fPuts[i].last = Min(i * fChunk, fSize) - 1
         /\ fPuts[i].total = fSize
         /\ i < CeilDiv(fSize, fChunk) => PutSize(fPuts[i]) = fChunk
         /\ PutSize(fPuts[i]) >= 1
    /\ Len(fPuts) <= CeilDiv(fSize, fChunk)
    /\ fpc = "resolved" =>
         /\ Len(fPuts) = CeilDiv(fSize, fChunk)
         /\ fPuts[Len(fPuts)].last = fSize - 1
         /\ (fSize = 12 /\ fChunk = 5) =>
              <<PutSize(fPuts[1]), PutSize(fPuts[2]), PutSize(fPuts[3])>>
                = <<5, 5, 2>>

\* 12 units in chunks of 5, every chunk accepted at once
C11_Witness ==
  /\ fSize = 12 /\ fChunk = 5
  /\ fpc = "resolved" /\ fFails = 0
  /\ Len(fPuts) = 3

(* C12: the failures of one chunk are counted by one counter whatever      *)
(* their kind, and every retry sends the same byte range; the counter      *)
(* never exceeds maxRetries, a chunk is never sent more than maxRetries+1  *)
(* times, and an upload rejected by a retryable failure of a chunk was     *)
(* rejected by the (maxRetries+1)-th failure in a row.                     *)
C12_RetryCeiling ==
  fpc # "off" =>
    /\ retries <= fMaxRetries
    /\ fConsec <= fMaxRetries + 1
    /\ \A i \in 1..Len(fPuts) :
         /\ Attempts(fPuts[i].first) <= fMaxRetries + 1
         /\ \A j \in 1..Len(fPuts) :
              fPuts[i].first = fPuts[j].first => fPuts[i] = fPuts[j]
    /\ fpc \in {"read", "put", "wait"} => fConsec = retries
    /\ (fpc = "rejected" /\ fLast.call # "open"
          /\ fLast.kind \in RetryableKinds \cup {"read"}) =>
         /\ fLast.attempts = fMaxRetries + 1
         /\ retries = fMaxRetries
    /\ fConsec = fMaxRetries + 1 => fpc = "rejected"

\* with maxRetries = 2 a chunk is sent three times, fails three times and the
\* third failure, a network error, rejects the upload
C12_Witness ==
  /\ fMaxRetries = 2
  /\ fpc = "rejected"
  /\ fLast = [call |-> "put", kind |-> "network", attempts |-> 3]
  /\ Attempts(uploadedBytes) = 3
  /\ fRecord = "failed"

(* C13: every retry is scheduled with a delay whose part without jitter is *)
(* 2^attempt * 1000 ms, the jitter adding less than 1000 ms; that part     *)
(* does not decrease from one attempt of a chunk to the next; and an       *)
(* upload that resolves after exactly two failed PUTs of one chunk has     *)
(* scheduled exactly two retries, for the attempts 1 and 2, has sent the   *)
(* chunk three times and is recorded in uploadedFiles.                     *)
C13_Backoff ==
  fpc # "off" =>
    /\ \A i \in 1..Len(fDelays) :
         /\ fDelays[i].attempt \in 1..fMaxRetries
         /\ fDelays[i].delay.lo = Pow(2, fDelays[i].attempt) * 1000
         /\ fDelays[i].delay.hi = fDelays[i].delay.lo + 1000
    /\ \A i \in 1..(Len(fDelays) - 1) :
         fDelays[i + 1].attempt > 1 =>
           /\ fDelays[i + 1].attempt = fDelays[i].attempt + 1
           /\ fDelays[i + 1].first = fDelays[i].first
           /\ fDelays[i + 1].delay.lo >= fDelays[i].delay.lo
    /\ \A a \in 1..(fMaxRetries - 1) : BackoffBase(a) <= BackoffBase(a + 1)
    /\ (fpc = "resolved" /\ fFails = 2 /\ Len(fDelays) = 2
          /\ fDelays[1].handler = "put" /\ fDelays[2].handler = "put"
          /\ fDelays[1].first = fDelays[2].first) =>
         /\ <<fDelays[1].attempt, fDelays[2].attempt>> = <<1, 2>>
         /\ <<fDelays[1].delay.lo, fDelays[2].delay.lo>> = <<2000, 4000>>
         /\ Attempts(fDelays[1].first) = 3
         /\ fRecord = "uploaded"

\* a PUT fails twice, is accepted the third time and the upload resolves
C13_Witness ==
  /\ fpc = "resolved" /\ fRecord = "uploaded"
  /\ fFails = 2 /\ Len(fDelays) = 2
  /\ fDelays[1].handler = "put" /\ fDelays[2].handler = "put"
  /\ fDelays[1].first = fDelays[2].first
  /\ Attempts(fDelays[1].first) = 3

(* C15: an upload that a retryable failure (429, 5xx, network error) of a  *)
(* remote call has rejected was rejected at the attempt ceiling, that is   *)
(* after maxRetries + 1 attempts of that call.                             *)
C15_EveryCallRetried ==
  (fpc = "rejected" /\ fLast.kind \in RetryableKinds) =>
    fLast.attempts = fMaxRetries + 1


(* C14: whatever happens to the process, generation_progress.json and      *)
(* drive_upload_progress.json each hold a complete snapshot, the one       *)
(* before or the one after the write under way, never a part of one.       *)
C14_CrashSafeWrites ==
  /\ snapshot.kind # "corrupt"
  /\ "torn" \notin DOMAIN ckpt


\* the images the main thread knows to be finished in this run: in a pool
\* those whose progress event it has received, on one thread those it has
\* rendered itself
KnownFinished ==
  IF gpc = "pool" THEN progressData.generated ELSE Cardinality(rendered)

(* C20: while a run is under way, fewer than 10 finished images are        *)
(* missing from the generated count of generation_progress.json, so that   *)
(* an unclean stop loses less than one persistence interval.               *)
C20_SnapshotLag ==
  (gpc \in {"single", "pool"} /\ snapshot.kind = "ok") =>
    KnownFinished - snapshot.data.generated < PersistEvery

\* the same for the pool alone
PoolLag ==
  (gpc = "pool" /\ snapshot.kind = "ok") =>
    /\ progressData.generated - snapshot.data.generated < PersistEvery
    /\ progressData.generated - snapshot.data.generated >= 0


\* progressData as generateImages creates it
FreshProgress ==
  [startIndex |-> gStart, currentIndex |-> gStart, endIndex |-> gEnd,
   totalToGenerate |-> gEnd - gStart + 1, generated |-> 0, errors |-> <<>>,
   completed |-> FALSE]

\* what the message handler of a pool would hold (pd) and would have written
\* last (snap) after the events of the editions e..last of one worker, an
\* edition posting progress if that worker rendered it and error if not
RECURSIVE PoolOfOne(_, _, _, _)
PoolOfOne(e, last, pd, snap) ==
  IF e > last THEN [pd |-> pd, snap |-> snap]
  ELSE LET ok == <<e, 1>> \in rendered
           pd1 == IF ok
                  THEN [pd EXCEPT !.generated = @ + 1,
                                  !.currentIndex = Max(@, e)]
                  ELSE [pd EXCEPT !.errors = Append(@, e)]
           write == \/ ~ok
                    \/ pd1.generated % PersistEvery = 0
                    \/ pd1.generated = pd1.totalToGenerate
       IN PoolOfOne(e + 1, last, pd1, IF write THEN pd1 ELSE snap)

(* C17: on one thread generation_progress.json holds at every moment what  *)
(* the handlers of a pool would have written for the same items and        *)
(* outcomes, and at the end what they would have written last.             *)
C17_SingleLikePoolOfOne ==
  /\ gpc = "single" =>
       snapshot.data =
         PoolOfOne(gStart, workers[1].next, FreshProgress, FreshProgress).snap
  /\ (gpc = "ended" /\ numThreads <= 1) =>
       snapshot.data =
         [PoolOfOne(gStart, gEnd, FreshProgress, FreshProgress).pd
            EXCEPT !.generated = gEnd - gStart + 1, !.completed = TRUE]


(* C19: while the pool runs, currentIndex never decreases; the handling of *)
(* a progress event adds exactly 1 to generated and sets currentIndex to   *)
(* the greater of currentIndex and the index of the event, and the         *)
(* handling of an error, done or exit event leaves currentIndex as it is,  *)
(* whichever worker the event comes from.                                  *)
C19_ProgressEvents ==
  [][(gpc = "pool" /\ gpc' = "pool") =>
       /\ progressData'.currentIndex >= progressData.currentIndex
       /\ \A w \in 1..Len(chan) :
            (chan[w] # <<>> /\ chan' = [chan EXCEPT ![w] = Tail(chan[w])]) =>
              LET m == Head(chan[w])
              IN IF m.type = "progress"
                 THEN /\ progressData'.generated = progressData.generated + 1
                      /\ progressData'.currentIndex =
                           IF m.edition > progressData.currentIndex
                           THEN m.edition ELSE progressData.currentIndex
                 ELSE progressData'.currentIndex = progressData.currentIndex
    ]_vars

\* the events of the editions 1 and 3, from two workers, have been received
\* and that of edition 2 is waiting
C19_Witness ==
  /\ gpc = "pool"
  /\ Len(chan) >= 2
  /\ progressData.generated = 2
  /\ progressData.currentIndex = 3
  /\ chan[1] # <<>>
  /\ Head(chan[1]) = Msg("progress", 2, 0)


\* the files that were in failedUploads of the checkpoint the invocation
\* loaded and are in the image directory of batch b
LeftFailed(b) == {f \in uDirs[b] : f \in DOMAIN uAllProgress.failed}

\* no batch holding such a file is passed over by a lastBatchUploaded test
NoFailedBatchSkipped ==
  (upc = "loop" /\ uQueue # <<>>) =>
    LET key == Head(uQueue)
    IN (uAllProgress.last = key \/ getUploadProgress(ckpt).last = key) =>
         /\ LeftFailed(key) = {}
         /\ \A f \in uDirs[key] : f \notin DOMAIN getUploadProgress(ckpt).failed

\* uploadBatchToDrive got its token and its folder for batch b and was not
\* cut short
BatchServed(b) ==
  /\ <<"folder", b>> \in uRequests
  /\ ~(uQueue # <<>> /\ Head(uQueue) = b)

WithImage(dirs, e) ==
  LET key == BatchKey(e, ImageBatchSize(Undefined))
  IN [k \in DOMAIN dirs \cup {key} |->
        IF k = key
        THEN (IF k \in DOMAIN dirs THEN dirs[k] ELSE {}) \cup {e}
        ELSE dirs[k]]

InitMain ==
  /\ gForce = FALSE
  /\ gCfgStart = Undefined
  /\ gCfgThreads \in {Num(1), Num(2)}
  /\ gCpus = 2
  /\ gEnd \in 1..MaxMainItems
  /\ snapshot = NoSnapshot
  /\ images = {}
  /\ run = 1
  /\ gpc = "main"
  /\ ProcIdle
  /\ uDelete \in BOOLEAN
  /\ uConc = 1
  /\ uDirs = EmptyMap
  /\ ckpt = EmptyProgress
  /\ uRemote = {}
  /\ uRun = 1
  /\ upc = "off"
  /\ UploadProcIdle
  /\ PlanIdle
  /\ FileIdle
  /\ RenderIdle

\* WorkerStep, seen from the disk the transfer stage reads
MainWorkerStep(w, ok) ==
  /\ WorkerStep(w, ok)
  /\ uDirs' = IF ok THEN WithImage(uDirs, workers[w].next + 1) ELSE uDirs
  /\ UNCHANGED <<upCfgVars, uRemote, ckpt, uRun, upProcVars>>

\* the await of generateImages returns and main goes on to the upload
MainUpload ==
  /\ gResolved
  /\ upc = "off"
  /\ upc' = "start"
  /\ UNCHANGED <<upCfgVars, uRemote, uDirs, ckpt, uRun, uQueue, uAllProgress, progress,
                 uBatch, uFiles, uToUpload, uI, tasks, uResults, uToken,
                 uLoaded, uRequests, uListed, uOpened, uCheck>>

NextMain ==
  \/ MainDecide /\ UNCHANGED <<planVars, upVars, fileVars, renderVars>>
  \/ GenerateImages /\ UNCHANGED <<planVars, upVars, fileVars, renderVars>>
  \/ \E w \in 1..MaxThreads, ok \in BOOLEAN :
       MainWorkerStep(w, ok) /\ UNCHANGED <<planVars, fileVars, renderVars>>
  \/ \E w \in 1..MaxThreads : WorkerFinish(w) /\ UNCHANGED <<planVars, upVars, fileVars, renderVars>>
  \/ SingleFinish /\ UNCHANGED <<planVars, upVars, fileVars, renderVars>>
  \/ \E w \in 1..MaxThreads : HandleEvent(w) /\ UNCHANGED <<planVars, upVars, fileVars, renderVars>>
  \/ ProcessExit /\ UNCHANGED <<planVars, upVars, fileVars, renderVars>>
  \/ MainUpload /\ UNCHANGED <<planVars, genVars, fileVars, renderVars>>
  \/ UploadAllBegin /\ UNCHANGED <<planVars, genVars, fileVars, renderVars>>
  \/ BatchBegin /\ UNCHANGED <<planVars, genVars, fileVars, renderVars>>
  \/ \E tokenOk \in BOOLEAN, folderOk \in BOOLEAN :
       BatchSetup(tokenOk, folderOk) /\ UNCHANGED <<planVars, genVars, fileVars, renderVars>>
  \/ WindowStart /\ UNCHANGED <<planVars, genVars, fileVars, renderVars>>
  \/ \E f \in DOMAIN tasks, ok \in BOOLEAN :
       TaskSettle(f, ok, TRUE) /\ UNCHANGED <<planVars, genVars, fileVars, renderVars>>
  \/ WindowSettled /\ UNCHANGED <<planVars, genVars, fileVars, renderVars>>
  \/ UploadAllEnd /\ UNCHANGED <<planVars, genVars, fileVars, renderVars>>

SpecMain == InitMain /\ [][NextMain]_vars

(* C16: once the transfer stage has listed the output directory, no worker *)
(* has an item of its range left to render, and none renders or writes an  *)
(* image from then on.                                                     *)
C16_StagesInSequence ==
  upc \notin {"off", "start"} =>
    \A w \in 1..Len(workers) : workers[w].next > workers[w].endIdx

(***************************************************************************)
(* The chunk protocol of one file, continued.                              *)
(***************************************************************************)

\* the step is the handling of an answer that confirms the chunk sent
ConfirmStep ==
  /\ fpc = "put"
  /\ fAnswer'.put = Len(fPuts)
  /\ fAnswer'.kind \in {"2xx", "308"}

(* C25: a step changes the tracked offset only if it handles an answer     *)
(* that confirms the chunk sent (no failure, retried or terminal, and no   *)
(* timer changes it); every such step leaves the attempt counter at zero;  *)
(* and a chunk is given up after a retryable failure only when that chunk  *)
(* alone has failed maxRetries + 1 times in a row, however many failures   *)
(* the chunks before it had.                                               *)
C25_OffsetAndBudget ==
  [][/\ uploadedBytes' # uploadedBytes => ConfirmStep
     /\ ConfirmStep => retries' = 0 /\ uploadedBytes' > uploadedBytes
     /\ (fpc \in {"read", "put"} /\ fpc' = "rejected"
           /\ fLast'.kind \in RetryableKinds \cup {"read"}) =>
          /\ fConsec' = fMaxRetries + 1
          /\ fLast'.attempts = fMaxRetries + 1
          /\ Cardinality({i \in 1..Len(fDelays) :
                            fDelays[i].first = uploadedBytes}) = fMaxRetries
    ]_vars

\* the first chunk was confirmed after a failure, and the second chunk is
\* given up after its own maxRetries + 1 failures
C25_Witness ==
  /\ fpc = "rejected"
  /\ fMaxRetries = 1
  /\ uploadedBytes > 0
  /\ fFails = 3
  /\ fLast.attempts = 2
  /\ fDelays[1].first = 0
  /\ fDelays[2].first = uploadedBytes

(* C26: once a PUT is answered with a status that is neither 2xx, 308, 429 *)
(* nor 5xx, the upload is rejected and recorded as failed, that PUT is the *)
(* last one sent, no retry was scheduled for it, and this is so whatever   *)
(* is left of the retry budget.                                            *)
C26_OtherStatusTerminal ==
  fAnswer.kind = "4xx" =>
    /\ fpc = "rejected"
    /\ fRecord = "failed"
    /\ fLast.call = "put" /\ fLast.kind = "4xx"
    /\ fAnswer.put = Len(fPuts)
    /\ Cardinality({i \in 1..Len(fDelays) : fDelays[i].first = uploadedBytes})
         = retries
    /\ Attempts(uploadedBytes) <= retries + 1

\* the first PUT of a file is answered 4xx while two retries are allowed
C26_Witness ==
  /\ fAnswer.kind = "4xx"
  /\ fpc = "rejected"
  /\ fMaxRetries = 2
  /\ retries = 0
  /\ Len(fPuts) = 1
  /\ fDelays = <<>>

(* C27: after a 308 answer the tracked offset is the offset that answer    *)
(* confirmed, and the next PUT starts at that offset.                      *)
C27_ServerOffset ==
  fAnswer.kind = "308" =>
    /\ uploadedBytes = fAnswer.confirmed
    /\ Len(fPuts) > fAnswer.put =>
         fPuts[fAnswer.put + 1].first = fAnswer.confirmed

(* C28: an upload is resolved, and the file recorded in uploadedFiles,     *)
(* only when the last answer to a PUT of the file was a 2xx to the PUT     *)
(* that carried the last byte of the file.                                 *)
C28_DoneAfterFinalSuccess ==
  (fpc = "resolved" \/ fRecord = "uploaded") =>
    /\ fAnswer.kind = "2xx"
    /\ fAnswer.put = Len(fPuts)
    /\ fPuts[Len(fPuts)].last = fSize - 1


(***************************************************************************)
(* The windows of uploadBatchToDrive.                                      *)
(***************************************************************************)

InFlight == {f \in DOMAIN tasks : tasks[f].state = "inflight"}

Recorded(p, f) == IsUploaded(p, f) \/ f \in DOMAIN p.failed

Disjoint(p) == DOMAIN p.uploaded \cap DOMAIN p.failed = {}

(* C23: no file is both in uploadedFiles and in failedUploads, in memory   *)
(* at any moment and in every checkpoint written; a task that succeeded    *)
(* has left the file in uploadedFiles only, a task that failed in          *)
(* failedUploads only.                                                     *)
C23_UploadedXorFailed ==
  /\ Disjoint(progress)
  /\ Disjoint(getUploadProgress(ckpt))
  /\ Disjoint(uLoaded)
  /\ Disjoint(uAllProgress)
  /\ \A f \in DOMAIN tasks :
       /\ tasks[f].state = "ok" =>
            IsUploaded(progress, f) /\ f \notin DOMAIN progress.failed
       /\ tasks[f].state = "failed" =>
            ~IsUploaded(progress, f) /\ f \in DOMAIN progress.failed

\* a file that the loaded checkpoint listed as failed has been uploaded and
\* the checkpoint written
C23_Witness ==
  /\ uRun = 2
  /\ \E f \in DOMAIN uLoaded.failed :
       /\ IsUploaded(ckpt, f)
       /\ ckpt.uploaded[f] = 2
       /\ f \notin DOMAIN ckpt.failed
       /\ f \notin DOMAIN progress.failed

PreviousAttempts(p, f) == IF f \in DOMAIN p.failed THEN p.failed[f] ELSE 0

(* C24: the step in which a task fails writes for its file a failedUploads *)
(* entry whose attempts is one more than the attempts recorded before (1   *)
(* if there was no entry), leaves the other tasks of the window as they    *)
(* are and the window running; and a window that settles with failed tasks *)
(* is followed by the next window of the batch if files remain, and        *)
(* otherwise by the next batch: the stage does not end there.              *)
C24_FailureIsRecorded ==
  [][/\ \A f \in DOMAIN tasks :
          (tasks[f].state = "inflight" /\ upc' = "inflight"
             /\ tasks'[f].state = "failed") =>
            /\ progress'.failed[f] = PreviousAttempts(progress, f) + 1
            /\ PreviousAttempts(progress, f) = PreviousAttempts(uLoaded, f)
            /\ progress'.uploaded = progress.uploaded
            /\ \A g \in DOMAIN tasks \ {f} : tasks'[g] = tasks[g]
     /\ (upc = "inflight" /\ upc' \notin {"inflight", "killed"}
           /\ \E f \in DOMAIN tasks : tasks[f].state = "failed") =>
          /\ progress'.failed = progress.failed
          /\ IF uI + uConc < Len(uToUpload)
             THEN upc' = "window" /\ uI' = uI + uConc /\ uQueue' = uQueue
             ELSE upc' = "loop" /\ uQueue' = Tail(uQueue)
    ]_vars

\* in a second invocation the first file of a window of two has failed for
\* the second time, the other file of the window is uploaded, and the next
\* window of the batch is under way
C24_Witness ==
  /\ uRun = 2
  /\ upc = "inflight"
  /\ uConc = 2
  /\ uI = 2
  /\ InFlight # {}
  /\ uResults = [ok |-> 1, failed |-> 1]
  /\ PreviousAttempts(uLoaded, uToUpload[1]) = 1
  /\ PreviousAttempts(progress, uToUpload[1]) = 2
  /\ IsUploaded(progress, uToUpload[2])


(***************************************************************************)
(* The order of the batches.  A collection large enough for its batch      *)
(* directories to have names of different lengths, transferred in one      *)
(* invocation to a remote end that grants the token and the folders.       *)
(***************************************************************************)
InitOrder ==
  /\ uDelete = FALSE
  /\ uConc = MaxConcurrent
  /\ \E n \in 1..MaxOrderItems, b \in {1, MaxOrderBatch} :
       uDirs = [k \in {BatchKey(e, Num(b)) : e \in 1..n} |->
                  {e \in 1..n : BatchKey(e, Num(b)) = k}]
  /\ ckpt = EmptyProgress
  /\ uRemote = {}
  /\ uRun = 1
  /\ upc = "start"
  /\ UploadProcIdle
  /\ PlanIdle
  /\ GenIdle
  /\ FileIdle
  /\ RenderIdle

NextOrder ==
  \/ UploadAllBegin /\ UNCHANGED <<planVars, genVars, fileVars, renderVars>>
  \/ BatchBegin /\ UNCHANGED <<planVars, genVars, fileVars, renderVars>>
  \/ BatchSetup(TRUE, TRUE) /\ UNCHANGED <<planVars, genVars, fileVars, renderVars>>
  \/ WindowStart /\ UNCHANGED <<planVars, genVars, fileVars, renderVars>>
  \/ \E f \in DOMAIN tasks, ok \in BOOLEAN :
       TaskSettle(f, ok, TRUE) /\ UNCHANGED <<planVars, genVars, fileVars, renderVars>>
  \/ WindowSettled /\ UNCHANGED <<planVars, genVars, fileVars, renderVars>>
  \/ UploadAllEnd /\ UNCHANGED <<planVars, genVars, fileVars, renderVars>>

SpecOrder == InitOrder /\ [][NextOrder]_vars

\* the batches the loop has finished with
Visited == DOMAIN uDirs \ Range(uQueue)

(* C21: while uploadBatchToDrive works on a batch, every batch directory   *)
(* whose range starts at a smaller index has been finished with, every one *)
(* whose range starts at a larger index has not been started (none of its  *)
(* files has had a session, or an entry made, in this invocation), and the *)
(* tasks in progress are files of that one batch.                          *)
C21_AscendingBatches ==
  upc \in {"setup", "window", "inflight"} =>
    /\ uQueue # <<>> /\ Head(uQueue) = uBatch
    /\ \A k \in DOMAIN uDirs :
         /\ KeyRange(k).start < KeyRange(uBatch).start => k \in Visited
         /\ KeyRange(k).start > KeyRange(uBatch).start =>
              /\ k \notin Visited
              /\ \A f \in uDirs[k] :
                   /\ f \notin uOpened
                   /\ Recorded(progress, f) => Recorded(uAllProgress, f)
    /\ DOMAIN tasks \subseteq Range(uFiles)
    /\ Range(uFiles) \subseteq KeyRange(uBatch).start..KeyRange(uBatch).end


(***************************************************************************)
(* Failures of the disk under generation_progress.json.  The file found at *)
(* the start may be unparsable, and any fs.writeFileSync of generateImages *)
(* may throw (disk full, permission lost).                                 *)
(***************************************************************************)
InitDisk ==
  /\ gForce = FALSE
  /\ gCfgStart = Undefined
  /\ gCfgThreads \in {Num(1), Num(2)}
  /\ gCpus = 2
  /\ gEnd \in 1..MaxGenItems
  /\ snapshot \in {NoSnapshot, Corrupt}
  /\ images = {}
  /\ run = 1
  /\ gpc = "main"
  /\ ProcIdle
  /\ PlanIdle
  /\ UploadIdle
  /\ FileIdle
  /\ RenderIdle

\* the first write of generateImages throws: the promise of generateImages
\* rejects before any item is rendered, and main() rejects with it
FirstWriteThrows ==
  /\ gpc = "generate"
  /\ gStart >= 1 /\ gStart <= gEnd
  /\ numThreads' = GenNumThreads(MainNumThreads(gCfgThreads), gCpus)
  /\ gpc' = "writefailed"
  /\ UNCHANGED <<genCfgVars, genDiskVars, run, gLoaded, gStart, progressData,
                 completedThreads, totalGenerated, gResolved, workers, chan,
                 rendered>>

\* the write at the end of the single-thread branch throws
SingleWriteThrows ==
  /\ gpc = "single"
  /\ workers[1].next > workers[1].endIdx
  /\ progressData' = [progressData EXCEPT
                        !.generated = workers[1].endIdx - workers[1].startIdx + 1,
                        !.currentIndex = gEnd,
                        !.completed = TRUE]
  /\ gpc' = "writefailed"
  /\ UNCHANGED <<genCfgVars, genDiskVars, run, gLoaded, gStart, numThreads,
                 completedThreads, totalGenerated, gResolved, workers, chan,
                 rendered>>

\* the write in a handler of worker.on('message') or worker.on('exit')
\* throws: the exception leaves the handler uncaught and ends the process
HandlerWriteThrows(w) ==
  /\ gpc = "pool"
  /\ w \in 1..Len(chan)
  /\ chan[w] # <<>>
  /\ LET a == AfterEvent(Head(chan[w]))
     IN /\ a.write
        /\ progressData' = a.pd
        /\ completedThreads' = a.completedThreads
        /\ totalGenerated' = a.totalGenerated
  /\ chan' = [chan EXCEPT ![w] = Tail(@)]
  /\ gpc' = "writefailed"
  /\ UNCHANGED <<genCfgVars, genDiskVars, run, gLoaded, gStart, numThreads,
                 gResolved, workers, rendered>>

NextDisk ==
  \/ NextPool
  \/ FirstWriteThrows /\ UNCHANGED <<planVars, upVars, fileVars, renderVars>>
  \/ SingleWriteThrows /\ UNCHANGED <<planVars, upVars, fileVars, renderVars>>
  \/ \E w \in 1..MaxThreads :
       HandlerWriteThrows(w) /\ UNCHANGED <<planVars, upVars, fileVars, renderVars>>

SpecDisk == InitDisk /\ [][NextDisk]_vars

(* C29: an unparsable generation_progress.json makes the generation start  *)
(* at index 1, and no failed write of it ends the generation stage.        *)
C29_CheckpointIOTolerated ==
  /\ (gLoaded = Corrupt /\ gpc \notin {"main", "off"}) => gStart = 1
  /\ gpc # "writefailed"

\* the reading alone: an unparsable file is taken for no file
UnparsableMeansNoProgress ==
  (gLoaded = Corrupt /\ gpc \notin {"main", "off"}) => gStart = 1


(***************************************************************************)
(* workerFunction, with the turns of its loop that neither render nor      *)
(* fail: the edition has no entry in the metadata that was loaded, or none *)
(* of its layer files exists.                                              *)
(***************************************************************************)

\* allNfts.size === 0: one error event for edition -1, and the function
\* returns without entering the loop and without a done event
WorkerNoMetadata(w) ==
  /\ gpc \in {"single", "pool"}
  /\ w \in 1..Len(workers)
  /\ workers[w].next = workers[w].startIdx
  /\ ~workers[w].done
  /\ workers' = [workers EXCEPT ![w].next = workers[w].endIdx + 1,
                                ![w].done = TRUE]
  /\ chan' =
       IF gpc = "pool"
       THEN [chan EXCEPT ![w] = @ \o <<Msg("error", -1, 0), Msg("exit", 0, 0)>>]
       ELSE chan
  /\ UNCHANGED <<genCfgVars, genDiskVars, run, gpc, gLoaded, gStart, numThreads,
                 progressData, completedThreads, totalGenerated, gResolved,
                 rendered>>

\* one turn of the loop for an edition without metadata (continue) or
\* without any layer file (layers.length is 0): nothing is written and
\* nothing is posted
WorkerSilent(w) ==
  /\ gpc \in {"single", "pool"}
  /\ w \in 1..Len(workers)
  /\ workers[w].next <= workers[w].endIdx
  /\ workers' = [workers EXCEPT ![w].next = @ + 1]
  /\ UNCHANGED <<genCfgVars, genDiskVars, run, gpc, gLoaded, gStart, numThreads,
                 progressData, completedThreads, totalGenerated, gResolved,
                 chan, rendered>>

NextWorker ==
  \/ NextPool
  \/ \E w \in 1..MaxThreads :
       WorkerNoMetadata(w) /\ UNCHANGED <<planVars, upVars, fileVars, renderVars>>
  \/ \E w \in 1..MaxThreads :
       WorkerSilent(w) /\ UNCHANGED <<planVars, upVars, fileVars, renderVars>>

SpecWorker == InitPool /\ [][NextWorker]_vars

(* C30: a step of a worker thread of the pool moves it to the next index   *)
(* of its range, never past the end and never by more than one, and        *)
(* appends to its events exactly one event for the index it leaves:        *)
(* progress if the image was written, error with that index if not; the    *)
(* worker takes such steps until its range is exhausted, whatever failed   *)
(* before; and it ends with one done event, posted when the range is       *)
(* exhausted, after which it posts nothing.                                *)
C30_WorkerEvents ==
  [][gpc = "pool" =>
       \A w \in 1..Len(workers) :
         (Len(workers') = Len(workers) /\ workers'[w] # workers[w]) =>
           LET edition == workers[w].next + 1
           IN \/ /\ workers[w].next <= workers[w].endIdx
                 /\ workers'[w] = [workers[w] EXCEPT !.next = @ + 1]
                 /\ chan'[w] =
                      Append(chan[w],
                             Msg(IF edition \in images' /\ <<edition, w>> \in rendered'
                                 THEN "progress" ELSE "error", edition, 0))
              \/ /\ workers[w].next = workers[w].endIdx + 1
                 /\ ~workers[w].done
                 /\ workers'[w] = [workers[w] EXCEPT !.done = TRUE]
                 /\ Len(chan'[w]) >= Len(chan[w]) + 1
                 /\ chan'[w][Len(chan[w]) + 1] =
                      Msg("done", 0, workers[w].endIdx - workers[w].startIdx + 1)
    ]_vars

(***************************************************************************)
(* One turn of the loop of workerFunction for an item that has metadata.   *)
(* For each layer of layerOrder the item has an attribute whose layer file *)
(* exists ("file"), an attribute whose layer file is missing ("nofile"),   *)
(* or no attribute ("noattr").                                             *)
(***************************************************************************)
LayerKinds == {"file", "nofile", "noattr"}

\* the j loop: the positions of layerOrder pushed to layers, in order
RECURSIVE LayersFrom(_, _)
LayersFrom(layerOrder, j) ==
  IF j > Len(layerOrder) THEN <<>>
  ELSE IF layerOrder[j] = "file"
       THEN <<j>> \o LayersFrom(layerOrder, j + 1)
       ELSE LayersFrom(layerOrder, j + 1)

InitRender ==
  /\ \E n \in 0..MaxLayers : rLayers \in [1..n -> LayerKinds]
  /\ rpc = "turn"
  /\ rThrew = FALSE
  /\ rComposite = <<>>
  /\ rImage = FALSE
  /\ rEvent = "none"
  /\ PlanIdle
  /\ GenIdle
  /\ UploadIdle
  /\ FileIdle

\* the try block: with no layer nothing is written and nothing is posted
RenderTurn(throws) ==
  /\ rpc = "turn"
  /\ LET layers == LayersFrom(rLayers, 1)
     IN IF Len(layers) > 0
        THEN /\ rThrew' = throws
             /\ rComposite' = IF throws THEN <<>> ELSE layers
             /\ rImage' = ~throws
             /\ rEvent' = IF throws THEN "error" ELSE "progress"
        ELSE /\ ~throws
             /\ UNCHANGED <<rThrew, rComposite, rImage, rEvent>>
  /\ rpc' = "done"
  /\ UNCHANGED rLayers

NextRender ==
  \E throws \in BOOLEAN :
    RenderTurn(throws) /\ UNCHANGED <<planVars, genVars, upVars, fileVars>>

SpecRender == InitRender /\ [][NextRender]_vars

(* C31: after the turn of an item some or all of whose layer files are     *)
(* missing, and during which nothing threw, the output file is written     *)
(* from the layers whose file exists, in the order of layerOrder, and a    *)
(* progress event, not an error event, is posted.                          *)
C31_MissingLayerNotFatal ==
  (rpc = "done" /\ ~rThrew
     /\ \E j \in 1..Len(rLayers) : rLayers[j] = "nofile") =>
    /\ rImage
    /\ rEvent = "progress"
    /\ \A k \in 1..Len(rComposite) : rLayers[rComposite[k]] = "file"
    /\ \A k \in 1..(Len(rComposite) - 1) : rComposite[k] < rComposite[k + 1]
    /\ \A j \in 1..Len(rLayers) :
         rLayers[j] = "file" => \E k \in 1..Len(rComposite) : rComposite[k] = j

\* the same when at least one layer file exists
SomeLayerResolves ==
  (\E j \in 1..Len(rLayers) : rLayers[j] = "file") => C31_MissingLayerNotFatal

\* ---------------------------------------------------------------------
\* Deleting the local file after its upload (deleteLocalAfterUpload)
\* ---------------------------------------------------------------------

\* one invocation that deletes after upload, over every small directory
InitUnlink ==
  /\ uDelete = TRUE
  /\ uConc \in 1..MaxConcurrent
  /\ \E n \in 1..MaxUploadItems, b \in UploadBatchSizes :
       uDirs = [k \in {BatchKey(e, Num(b)) : e \in 1..n} |->
                  {e \in 1..n : BatchKey(e, Num(b)) = k}]
  /\ ckpt = EmptyProgress
  /\ uRemote = {}
  /\ uRun = 1
  /\ upc = "start"
  /\ UploadProcIdle
  /\ PlanIdle
  /\ GenIdle
  /\ FileIdle
  /\ RenderIdle

\* the transfer where fs.unlinkSync can throw, with a second invocation
NextUnlink ==
  \/ UploadAllBegin /\ UNCHANGED <<planVars, genVars, fileVars, renderVars>>
  \/ BatchBegin /\ UNCHANGED <<planVars, genVars, fileVars, renderVars>>
  \/ BatchSetup(TRUE, TRUE) /\ UNCHANGED <<planVars, genVars, fileVars, renderVars>>
  \/ WindowStart /\ UNCHANGED <<planVars, genVars, fileVars, renderVars>>
  \/ \E f \in DOMAIN tasks, ok \in BOOLEAN, unlinkOk \in BOOLEAN :
       TaskSettle(f, ok, unlinkOk)
         /\ UNCHANGED <<planVars, genVars, fileVars, renderVars>>
  \/ WindowSettled /\ UNCHANGED <<planVars, genVars, fileVars, renderVars>>
  \/ UploadAllEnd /\ UNCHANGED <<planVars, genVars, fileVars, renderVars>>
  \/ UploadAgain /\ UNCHANGED <<planVars, genVars, fileVars, renderVars>>

SpecUnlink == InitUnlink /\ [][NextUnlink]_vars

\* the files present in the batch directories
OnDisk == UNION {uDirs[k] : k \in DOMAIN uDirs}

\* C32: with deleteLocalAfterUpload a local file disappears only in the
\* step in which its upload has succeeded and its uploadedFiles entry is
\* in the progress; a task that fails leaves every file in place; a task
\* whose upload succeeded is in uploadedFiles and not in failedUploads
\* whether or not the deletion went through.
C32_DeleteOnlyAfterSuccess ==
  [][/\ \A f \in OnDisk \ OnDisk' :
          /\ uDelete
          /\ f \in DOMAIN tasks /\ tasks[f].state = "inflight"
          /\ tasks'[f].state = "ok"
          /\ <<f, uRun>> \in uRemote'
          /\ IsUploaded(progress', f)
          /\ f \notin DOMAIN progress'.failed
     /\ \A f \in DOMAIN tasks :
          (tasks[f].state = "inflight" /\ upc' = "inflight"
             /\ tasks'[f].state = "failed") => OnDisk' = OnDisk
     /\ \A f \in DOMAIN tasks :
          (tasks[f].state = "inflight" /\ upc' = "inflight"
             /\ tasks'[f].state = "ok") =>
            /\ IsUploaded(progress', f)
            /\ f \notin DOMAIN progress'.failed
            /\ progress'.failed = [g \in DOMAIN progress.failed \ {f} |->
                                     progress.failed[g]]
    ]_vars

\* one window in which a file was uploaded and deleted, a second was
\* uploaded but could not be deleted, and a third failed and is still there
C32_Witness ==
  /\ uDelete
  /\ upc = "inflight"
  /\ \E f \in DOMAIN tasks, g \in DOMAIN tasks, h \in OnDisk :
       /\ tasks[f].state = "ok" /\ f \notin OnDisk
       /\ IsUploaded(progress, f)
       /\ tasks[g].state = "ok" /\ g \in OnDisk
       /\ IsUploaded(progress, g) /\ g \notin DOMAIN progress.failed
       /\ h \in DOMAIN progress.failed
       /\ ~IsUploaded(progress, h)

\* ---------------------------------------------------------------------
\* What a checkpoint of the image stage promises
\* ---------------------------------------------------------------------

\* C33: a snapshot with completed = false and currentIndex = K covers the
\* items up to K: each index in startIndex..K is rendered or is in errors.
C33_ResumeLosesNoWork ==
  (snapshot.kind = "ok" /\ ~snapshot.data.completed) =>
    \A e \in snapshot.data.startIndex..snapshot.data.currentIndex :
      e \in images \/ e \in Range(snapshot.data.errors)

\* the pool where every enabled step is eventually taken: each worker
\* goes through its range and exits, each posted event is handled
SpecPoolLive == InitPool /\ [][NextPool]_vars /\ WF_vars(NextPool)

\* C34: once the workers of a multi-worker run are spawned, generateImages
\* eventually resolves and a snapshot with completed = true is on disk.
C34_PoolTerminates ==
  (gpc = "pool" /\ numThreads >= 2 /\ Len(workers) >= 1)
    ~> (gResolved /\ snapshot.kind = "ok" /\ snapshot.data.completed)

\* C35: an invocation without forceRegenerate that finds a readable
\* checkpoint of an interrupted run does not fail on its start index.
C35_NotStuckOnCheckpoint ==
  ~(gpc = "threw" /\ ~gForce /\ gLoaded.kind = "ok" /\ ~gLoaded.data.completed)

\* C36: the generated field of a persisted snapshot of a multi-worker run
\* counts only items that were rendered: it is at most the number of
\* images rendered so far and at most totalToGenerate.
C36_GeneratedCountsRendered ==
  (snapshot.kind = "ok" /\ numThreads >= 2) =>
    /\ snapshot.data.generated <= Cardinality(rendered)
    /\ snapshot.data.generated <= snapshot.data.totalToGenerate

\* ---------------------------------------------------------------------
\* The chunked upload against a remote end that fails as often as it likes
\* ---------------------------------------------------------------------

\* more failures than any upload of these sizes can meet before it settles
NoBudget == (MaxSettleFileSize + 2) * (MaxRetries + 2)

InitFileAll ==
  /\ fBudget = NoBudget
  /\ fSize \in 0..MaxSettleFileSize
  /\ fChunk \in 1..MaxSettleFileSize
  /\ fMaxRetries \in 0..MaxRetries
  /\ fpc = "open"
  /\ uploadedBytes = 0
  /\ retries = 0
  /\ fRecord = "none"
  /\ fPuts = <<>>
  /\ fDelays = <<>>
  /\ fConsec = 0
  /\ fFails = 0
  /\ fLast = NoFailure
  /\ fAnswer = NoAnswer
  /\ PlanIdle
  /\ GenIdle
  /\ UploadIdle
  /\ RenderIdle

\* every request is answered, every read ends and every timer fires
SpecFileLive == InitFileAll /\ [][NextFile]_vars /\ WF_vars(NextFile)

\* the failure budget is never what stops a retry
BudgetNeverBinds == fFails < fBudget

Settled == fpc \in {"resolved", "rejected"}

\* C37: an upload of fSize bytes in chunks of fChunk bytes sends at most
\* ceil(fSize / fChunk) * (maxRetries + 1) PUT requests and always settles.
C37_BoundedPuts ==
  /\ [](fpc # "off" =>
          Len(fPuts) <= CeilDiv(fSize, fChunk) * (fMaxRetries + 1))
  /\ <>Settled

\* a rejected upload that has sent every request the bound allows
C37_Witness ==
  /\ fpc = "rejected"
  /\ fMaxRetries >= 1
  /\ CeilDiv(fSize, fChunk) >= 2
  /\ Len(fPuts) = CeilDiv(fSize, fChunk) * (fMaxRetries + 1)

\* ---------------------------------------------------------------------
\* An invocation that finds everything uploaded
\* ---------------------------------------------------------------------

\* the invocation has loaded a checkpoint in which every file of every
\* batch directory is uploaded, and the files are all still on disk
AllUploadedAtStart ==
  /\ upc \in {"loop", "setup", "window", "inflight", "done"}
  /\ ~uDelete
  /\ \A k \in DOMAIN uDirs :
       uDirs[k] # {} /\ \A f \in uDirs[k] : IsUploaded(uAllProgress, f)

\* C39: an invocation that starts with everything uploaded sends no
\* remote request and leaves the checkpoint, lastBatchUploaded included,
\* as it found it.
C39_IdempotentWhenDone ==
  AllUploadedAtStart => uRequests = {} /\ ckpt = uAllProgress

\* ---------------------------------------------------------------------
\* What an interrupted transfer costs the next invocation
\* ---------------------------------------------------------------------

\* the files this invocation has uploaded although an earlier invocation
\* had uploaded them already
ReUploaded ==
  {f \in {u[1] : u \in uRemote} :
     <<f, uRun>> \in uRemote /\ \E r \in 1..(uRun - 1) : <<f, r>> \in uRemote}

\* C38: an invocation uploads again at most concurrentUploads files that
\* an earlier, interrupted invocation had uploaded.
C38_AtMostOneWindowAgain == Cardinality(ReUploaded) <= uConc

\* the transfer where the process is never stopped inside a checkpoint
\* write; there the bound on the files uploaded again holds
NextWhole ==
  \/ UploadAllBegin /\ UNCHANGED <<planVars, genVars, fileVars, renderVars>>
  \/ BatchBegin /\ UNCHANGED <<planVars, genVars, fileVars, renderVars>>
  \/ \E tokenOk \in BOOLEAN, folderOk \in BOOLEAN :
       BatchSetup(tokenOk, folderOk) /\ UNCHANGED <<planVars, genVars, fileVars, renderVars>>
  \/ WindowStart /\ UNCHANGED <<planVars, genVars, fileVars, renderVars>>
  \/ \E f \in DOMAIN tasks, ok \in BOOLEAN :
       TaskSettle(f, ok, TRUE) /\ UNCHANGED <<planVars, genVars, fileVars, renderVars>>
  \/ WindowSettled /\ UNCHANGED <<planVars, genVars, fileVars, renderVars>>
  \/ UploadAllEnd /\ UNCHANGED <<planVars, genVars, fileVars, renderVars>>
  \/ UploadKill /\ UNCHANGED <<planVars, genVars, fileVars, renderVars>>
  \/ UploadAgain /\ UNCHANGED <<planVars, genVars, fileVars, renderVars>>

SpecWhole == InitUpload /\ [][NextWhole]_vars

\* ---------------------------------------------------------------------
\* A batch whose remote folder cannot be looked up or created
\* ---------------------------------------------------------------------

\* C40: when uploadAllBatchesToDrive is over, every batch directory it
\* found has had its turn, except at most the one whose folder could not
\* be looked up or created, and that batch has not changed the checkpoint.
C40_FolderFailureContained ==
  upc = "done" =>
    \A i \in 1..Len(uQueue) : uQueue[i] = uBatch /\ ckpt = uLoaded

====
